---------------------------- MODULE Spec2Model ----------------------------
(***************************************************************************)
(* Reply-synchronisation engine of claude_code_bridge: the append-only     *)
(* (Codex) log reader, the mutable-document (Gemini) session reader and    *)
(* the broadcast dispatcher, each modelled as a state machine translated   *)
(* from src/lib/codex_comm.py, src/lib/gemini_comm.py and                  *)
(* src/lib/broadcast.py.                                                   *)
(*                                                                         *)
(* Texts are sequences of tokens.  Letters stand for ordinary characters,  *)
(* "_" for a whitespace character, and the two-token sequence "[" "]" for  *)
(* the literal "[CCB_REPLY_END]" ("{" "}" for "[GEMINI_TURN_END]").        *)
(* "NL" stands for a newline character inside a text.                      *)
(***************************************************************************)
EXTENDS Integers, Sequences, FiniteSets, TLC

VARIABLES
    sys,      \* which component this behaviour exercises
    tick,     \* flips at every reader call or loop iteration (observability of calls)
    nw,       \* number of producer writes so far
    log,      \* Codex: the .jsonl file, a sequence of lines
    cstate,   \* Codex: the checkpoint the caller chains ("state" dict, offset_info)
    cpc,      \* Codex: position of the reader ("idle" or inside wait_for_message)
    cloc,     \* Codex: wait_for_message's local offset_info
    cprev,    \* Codex: the checkpoint of the capture_state call before the last one
    cret,     \* Codex: what the last reader call returned
    cg,       \* Codex: history variables used to state the properties
    doc,      \* Gemini: the session JSON file
    gstate,   \* Gemini: the checkpoint the caller chains ("state" dict)
    gprev,    \* Gemini: the checkpoint of the capture_state call before the last one
    gpc,      \* Gemini: position of the reader inside the running call
    gloc,     \* Gemini: local variables of the running call
    gret,     \* Gemini: what the last reader call returned
    gg,       \* Gemini: history variables used to state the properties
    env,      \* Dispatcher: state of each provider's session
    replies,  \* Dispatcher: whether each provider answers in time
    dpc,      \* Dispatcher: position inside cmd_ask and parallel_ask
    dreq,     \* Dispatcher: the arguments of the call
    rc,       \* Dispatcher: the exit code cmd_ask returned (-1: none yet)
    avail,    \* Dispatcher: available_providers
    di,       \* Dispatcher: index of the running for loop
    fut,      \* Dispatcher: the futures submitted to the pool
    results,  \* Dispatcher: the results map
    xmit,     \* Dispatcher: providers a message was transmitted to
    areq,     \* Communicator: its provider and the arguments of the running call
    apc,      \* Communicator: position inside ask_sync or ask_async
    ast,      \* Communicator: the local "state", the checkpoint it chains
    ahand,    \* Communicator: inputs and result of the last timeout handler call
    aret,     \* Communicator: what the call returned
    ag,       \* Communicator: history variables used to state the properties
    fsys,     \* Preferred log: modification time of each candidate file (0: absent)
    rd,       \* Preferred log: the reader object
    pret,     \* Preferred log: what the last resolution of the log path returned
    listing,  \* Preferred log: the order in which a directory listing yields the files
    pg,       \* Preferred log: history variables used to state the properties
    bfiles,   \* Binding: the content of each file that was created
    bnames,   \* Binding: the file each name points to (0: none)
    bw,       \* Binding: each writer's position and open handle
    bseen,    \* Binding: what the last read of the binding file observed
    npaths,   \* Path matching: the two spellings of one location
    nout,     \* Path matching: what normalize_path_for_match returned for each
    cv,       \* Conversations: the record, the reader and what the last call returned
    br,       \* Bridge: the input FIFO, the read buffer and the requests processed
    lk,       \* Session lock: the lock file and each process's position
    ka        \* Keepalive: the pending reminders, the clock and the log of sends

codexVars == <<log, cstate, cprev, cpc, cloc, cret, cg>>
geminiVars == <<doc, gstate, gprev, gpc, gloc, gret, gg>>
dispatchVars == <<env, replies, dpc, dreq, rc, avail, di, fut, results, xmit>>
askVars == <<areq, apc, ast, ahand, aret, ag>>
\* the variables of the components that follow the dispatcher
pathVars == <<fsys, listing, rd, pret, pg>>
bindVars == <<bfiles, bnames, bw, bseen>>
normVars == <<npaths, nout>>
moreVars == <<cv, br, lk, ka>>
restVars == <<askVars, pathVars, bindVars, normVars, moreVars>>
vars == <<sys, tick, nw, codexVars, geminiVars, dispatchVars, restVars>>

(***************************************************************************)
(* Bounds                                                                  *)
(***************************************************************************)
MaxWrites == 3
MaxDocWrites == 1
MaxSessionChanges == 1
MaxReplies == 2
MaxSlices == 2

(***************************************************************************)
(* Constants of the program                                                *)
(***************************************************************************)
CaptureAttempts == 10
\* seconds _send_and_wait waits for a reply when the timeout passed is 0
DefaultWaitTimeout == 600

(***************************************************************************)
(* Text helpers (Python str operations on token sequences)                 *)
(***************************************************************************)
MARKER == <<"[", "]">>
LEGACY == <<"{", "}">>
SEP == <<"NL", "NL">>

IsWs(t) == t \in {"_", "NL"}

\* pat occurs in s at position i
OccursAt(s, pat, i) ==
    /\ i >= 1
    /\ i + Len(pat) - 1 <= Len(s)
    /\ \A k \in 1..Len(pat) : s[i + k - 1] = pat[k]

\* `pat in s`
Contains(s, pat) == \E i \in 1..Len(s) : OccursAt(s, pat, i)

\* s.replace(pat, ""): one left-to-right pass over non-overlapping occurrences
RECURSIVE Remove(_, _)
Remove(s, pat) ==
    IF s = <<>> THEN <<>>
    ELSE IF OccursAt(s, pat, 1) THEN Remove(SubSeq(s, Len(pat) + 1, Len(s)), pat)
    ELSE <<Head(s)>> \o Remove(Tail(s), pat)

RECURSIVE LStrip(_)
LStrip(s) == IF s # <<>> /\ IsWs(Head(s)) THEN LStrip(Tail(s)) ELSE s

RECURSIVE RStrip(_)
RStrip(s) ==
    IF s # <<>> /\ IsWs(s[Len(s)]) THEN RStrip(SubSeq(s, 1, Len(s) - 1)) ELSE s

Strip(s) == RStrip(LStrip(s))

\* sep.join(parts)
RECURSIVE JoinWith(_, _)
JoinWith(parts, sep) ==
    IF parts = <<>> THEN <<>>
    ELSE IF Len(parts) = 1 THEN parts[1]
    ELSE parts[1] \o sep \o JoinWith(Tail(parts), sep)

RECURSIVE NonEmpty(_)
NonEmpty(parts) ==
    IF parts = <<>> THEN <<>>
    ELSE IF Head(parts) = <<>> THEN NonEmpty(Tail(parts))
    ELSE <<Head(parts)>> \o NonEmpty(Tail(parts))

\* Optional[str]
None == [some |-> FALSE, text |-> <<>>]
Some(t) == [some |-> TRUE, text |-> t]
\* Python truthiness of an Optional[str]
Truthy(m) == m.some /\ m.text # <<>>

(***************************************************************************)
(* Codex: the append-only log file                                         *)
(*                                                                         *)
(* A line is [rec, w]: rec is what the line holds once written in full,    *)
(* w the number of its bytes on disk: 1 or 2 while the producer is still   *)
(* writing the body (no newline yet), 3 once the newline is there.  Only   *)
(* the last line can be incomplete.                                        *)
(***************************************************************************)
CodexTexts == { <<"_", "a">>, <<"b", "_", "[", "]">> }

CodexRecs ==
    [type : {"response_item"}, text : CodexTexts]
      \cup { [type |-> "event_msg", text |-> <<>>] }

Complete(l) == l.w = 3

RECURSIVE FileSize(_)
FileSize(lines) == IF lines = <<>> THEN 0 ELSE Head(lines).w + FileSize(Tail(lines))

LineStart(lines, i) == FileSize(SubSeq(lines, 1, i - 1))
LineEnd(lines, i) == FileSize(SubSeq(lines, 1, i))

\* the line holding byte position off (off < file size)
LineAt(lines, off) ==
    CHOOSE i \in 1..Len(lines) : LineStart(lines, i) <= off /\ off < LineEnd(lines, i)

\* json.loads(line) followed by _extract_message_content(entry)
ExtractMessageContent(rec) ==
    IF rec.type # "response_item" THEN None ELSE Some(Strip(rec.text))

\* msg.replace("[CCB_REPLY_END]", "").rstrip()
CodexClean(t) == RStrip(Remove(t, MARKER))

\* the readline loop of _extract_message_from_data, from byte_offset
RECURSIVE ReadLines(_, _, _)
ReadLines(lines, byte_offset, partial_msgs) ==
    IF byte_offset >= FileSize(lines)
    THEN [msg |-> None, offset |-> byte_offset, frags |-> partial_msgs]
    ELSE LET i == LineAt(lines, byte_offset)
             l == lines[i]
         IN  IF ~Complete(l)
             THEN [msg |-> None, offset |-> byte_offset, frags |-> partial_msgs]
             ELSE IF byte_offset # LineStart(lines, i)
             THEN \* the rest of a line is no JSON record (json.JSONDecodeError)
                  ReadLines(lines, LineEnd(lines, i), partial_msgs)
             ELSE LET m == ExtractMessageContent(l.rec)
                  IN  IF ~m.some
                      THEN ReadLines(lines, LineEnd(lines, i), partial_msgs)
                      ELSE IF Contains(m.text, MARKER)
                      THEN [msg |-> Some(JoinWith(NonEmpty(
                                       Append(partial_msgs, CodexClean(m.text))), SEP)),
                            offset |-> LineEnd(lines, i),
                            frags |-> <<>>]
                      ELSE ReadLines(lines, LineEnd(lines, i),
                                     Append(partial_msgs, m.text))

\* variants of _extract_message_from_data, each with one defect:
\* the returned offset stays where the read began
ExtractWithoutAdvance(lines, offset_info) ==
    LET current_size == FileSize(lines)
        byte_offset == IF offset_info > current_size THEN 0 ELSE offset_info
    IN  IF byte_offset = current_size
        THEN [msg |-> None, offset |-> byte_offset, frags |-> <<>>]
        ELSE [ReadLines(lines, byte_offset, <<>>) EXCEPT !.offset = byte_offset]

\* without a reply, the returned offset is the end of the file
ExtractToEndOfFile(lines, offset_info) ==
    LET current_size == FileSize(lines)
        byte_offset == IF offset_info > current_size THEN 0 ELSE offset_info
        r == ReadLines(lines, byte_offset, <<>>)
    IN  IF byte_offset = current_size
        THEN [msg |-> None, offset |-> byte_offset, frags |-> <<>>]
        ELSE IF r.msg.some THEN r ELSE [r EXCEPT !.offset = current_size]

\* an offset at the end of the file restarts the read at offset 0
ExtractRereadsAtEnd(lines, offset_info) ==
    LET current_size == FileSize(lines)
        byte_offset == IF offset_info >= current_size THEN 0 ELSE offset_info
    IN  IF current_size = 0
        THEN [msg |-> None, offset |-> byte_offset, frags |-> <<>>]
        ELSE ReadLines(lines, byte_offset, <<>>)

\* an offset beyond the end of the file is kept
ExtractWithoutReset(lines, offset_info) ==
    LET current_size == FileSize(lines)
        byte_offset == offset_info
    IN  IF byte_offset >= current_size
        THEN [msg |-> None, offset |-> byte_offset, frags |-> <<>>]
        ELSE ReadLines(lines, byte_offset, <<>>)

\* _extract_message_from_data(log_path, offset_info): offset_info is the int
\* the callers pass (offset_info[0]); partial_msgs always starts empty
ExtractMessageFromData(lines, offset_info) ==
    LET current_size == FileSize(lines)
        byte_offset == IF offset_info > current_size THEN 0 ELSE offset_info
    IN  IF byte_offset = current_size
        THEN [msg |-> None, offset |-> byte_offset, frags |-> <<>>]
        ELSE ReadLines(lines, byte_offset, <<>>)


(***************************************************************************)
(* Codex: initial state, producer steps, reader operations                 *)
(*                                                                         *)
(* cg holds history variables, read by no operation of the reader:         *)
(*   turn  byte offset at which the current turn began: the baseline of    *)
(*         capture_state, then the offset returned with each reply         *)
(*   rot   the file was rotated since the last capture_state               *)
(*   mark  "no": cstate is the checkpoint a wait_for_message returned with *)
(*         a reply and no marker-terminated record was written since;      *)
(*         "yes": one was written since; "na": any other checkpoint        *)
(*   part  "tried": try_get_message was called, and returned no reply,     *)
(*         while the data after its checkpoint ended in the unfinished     *)
(*         last line; "done": that line has since been completed and       *)
(*         cstate is still the checkpoint that call returned               *)
(*   cap   number of capture_state calls in a row, with no write and no    *)
(*         other call on cstate since (at most 2)                          *)
(* cret.after and cret.part record cg.mark and cg.part before the call,     *)
(* cret.reset whether the call met a checkpoint offset beyond the end of   *)
(* the file.                                                               *)
(***************************************************************************)
IsMarkerRec(rec) ==
    rec.type = "response_item" /\ Contains(Strip(rec.text), MARKER)

LastLine == log[Len(log)]
TailOpen == log # <<>> /\ ~Complete(LastLine)
TailStart == LineStart(log, Len(log))

NoOffset == [offset |-> 0, frags |-> <<>>]

CodexInit ==
    /\ log = <<>>
    /\ cstate = NoOffset
    /\ cprev = NoOffset
    /\ cpc = "idle"
    /\ cloc = NoOffset
    /\ cret = [op |-> "none", reply |-> None, reset |-> FALSE,
               after |-> "na", part |-> "none"]
    /\ cg = [turn |-> 0, rot |-> FALSE, mark |-> "na", part |-> "none", cap |-> 0]

Marked(m, rec) == IF m = "no" /\ IsMarkerRec(rec) THEN "yes" ELSE m

\* the producer writes a whole line, newline included, in one write
AppendLine(rec) ==
    /\ sys = "codex" /\ nw < MaxWrites
    /\ ~TailOpen
    /\ log' = Append(log, [rec |-> rec, w |-> 3])
    /\ cg' = [cg EXCEPT !.mark = Marked(@, rec), !.part = "none", !.cap = 0]
    /\ cprev' = NoOffset
    /\ nw' = nw + 1
    /\ UNCHANGED <<geminiVars, dispatchVars, restVars, sys, tick, cstate, cpc, cloc, cret>>

\* the producer writes the beginning of a line: no newline yet
AppendPartial(rec) ==
    /\ sys = "codex" /\ nw < MaxWrites
    /\ ~TailOpen
    /\ log' = Append(log, [rec |-> rec, w |-> 1])
    /\ cg' = [cg EXCEPT !.part = "none", !.cap = 0]
    /\ cprev' = NoOffset
    /\ nw' = nw + 1
    /\ UNCHANGED <<geminiVars, dispatchVars, restVars, sys, tick, cstate, cpc, cloc, cret>>

\* more bytes of the unfinished line reach the file, still no newline
GrowPartial ==
    /\ sys = "codex" /\ nw < MaxWrites
    /\ TailOpen /\ LastLine.w = 1
    /\ log' = [log EXCEPT ![Len(log)].w = 2]
    /\ cg' = [cg EXCEPT !.cap = 0]
    /\ cprev' = NoOffset
    /\ nw' = nw + 1
    /\ UNCHANGED <<geminiVars, dispatchVars, restVars, sys, tick, cstate, cpc, cloc, cret>>

\* the rest of the unfinished line and its newline reach the file
CompleteLine ==
    /\ sys = "codex" /\ nw < MaxWrites
    /\ TailOpen
    /\ log' = [log EXCEPT ![Len(log)].w = 3]
    /\ cg' = [cg EXCEPT !.mark = Marked(@, LastLine.rec), !.cap = 0,
                        !.part = IF @ = "tried" THEN "done" ELSE "none"]
    /\ cprev' = NoOffset
    /\ nw' = nw + 1
    /\ UNCHANGED <<geminiVars, dispatchVars, restVars, sys, tick, cstate, cpc, cloc, cret>>

\* the file is truncated or replaced (rotation): it restarts empty or with
\* one line of new content written from offset 0
Rotate(fresh) ==
    /\ sys = "codex" /\ nw < MaxWrites
    /\ log # <<>>
    /\ log' = fresh
    /\ cg' = [cg EXCEPT !.rot = TRUE, !.turn = 0, !.part = "none", !.cap = 0,
                        !.mark = IF fresh = <<>> THEN @ ELSE Marked(@, fresh[1].rec)]
    /\ cprev' = NoOffset
    /\ nw' = nw + 1
    /\ UNCHANGED <<geminiVars, dispatchVars, restVars, sys, tick, cstate, cpc, cloc, cret>>

\* history bookkeeping for a reader call that read r from offset off,
\* and returned (or went on waiting)
CgAfter(op, off, r, returned) ==
    [cg EXCEPT !.turn = IF r.msg.some THEN r.offset ELSE @,
               !.mark = IF ~returned THEN @
                        ELSE IF op = "wait" /\ Truthy(r.msg) THEN "no" ELSE "na",
               !.part = IF op = "try" /\ TailOpen /\ off < FileSize(log) /\ ~r.msg.some
                        THEN "tried" ELSE "none",
               !.cap = 0]

\* CodexLogReader.capture_state
CodexCaptureState ==
    /\ sys = "codex" /\ cpc = "idle"
    /\ cstate' = [offset |-> FileSize(log), frags |-> <<>>]
    /\ cprev' = IF cg.cap >= 1 THEN cstate ELSE NoOffset
    /\ cret' = [op |-> "capture", reply |-> None, reset |-> FALSE,
               after |-> "na", part |-> "none"]
    /\ cg' = [cg EXCEPT !.turn = FileSize(log), !.rot = FALSE, !.mark = "na",
                        !.part = "none", !.cap = IF @ >= 1 THEN 2 ELSE 1]
    /\ tick' = ~tick
    /\ UNCHANGED <<geminiVars, dispatchVars, restVars, sys, nw, log, cpc, cloc>>

\* CodexLogReader.try_get_message(state) with the chained checkpoint
CodexTryGetMessage ==
    /\ sys = "codex" /\ cpc = "idle"
    /\ LET r == ExtractMessageFromData(log, cstate.offset)
       IN  /\ cstate' = [offset |-> r.offset, frags |-> r.frags]
           /\ cret' = [op |-> "try", reply |-> r.msg,
                       reset |-> cstate.offset > FileSize(log),
                       after |-> cg.mark, part |-> cg.part]
           /\ cg' = CgAfter("try", cstate.offset, r, TRUE)
    /\ cprev' = NoOffset
    /\ tick' = ~tick
    /\ UNCHANGED <<geminiVars, dispatchVars, restVars, sys, nw, log, cpc, cloc>>

\* CodexLogReader.try_get_message(state) with the checkpoint of the first of
\* two capture_state calls in a row; the caller keeps its chained checkpoint
CodexTryGetPrev ==
    /\ sys = "codex" /\ cpc = "idle"
    /\ cg.cap = 2
    /\ LET r == ExtractMessageFromData(log, cprev.offset)
       IN  cret' = [op |-> "tryprev", reply |-> r.msg,
                    reset |-> cprev.offset > FileSize(log),
                    after |-> "na", part |-> "none"]
    /\ tick' = ~tick
    /\ UNCHANGED <<geminiVars, dispatchVars, restVars, sys, nw, log, cstate, cprev, cpc, cloc, cg>>

\* CodexLogReader.wait_for_message: entry
CodexWaitBegin ==
    /\ sys = "codex" /\ cpc = "idle"
    /\ cpc' = "wait"
    /\ cloc' = cstate
    /\ cg' = [cg EXCEPT !.part = "none", !.cap = 0]
    /\ cprev' = NoOffset
    /\ tick' = ~tick
    /\ UNCHANGED <<geminiVars, dispatchVars, restVars, sys, nw, log, cstate, cret>>

\* CodexLogReader.wait_for_message: one iteration of the while loop;
\* expired is time.time() >= deadline
CodexWaitIter(expired) ==
    /\ sys = "codex" /\ cpc = "wait"
    /\ LET r == ExtractMessageFromData(log, cloc.offset)
           ret == [op |-> "wait", reply |-> r.msg,
                   reset |-> cloc.offset > FileSize(log),
                   after |-> cg.mark, part |-> "none"]
       IN  IF Truthy(r.msg) \/ expired
           THEN /\ cpc' = "idle"
                /\ cstate' = [offset |-> r.offset, frags |-> r.frags]
                /\ cret' = IF Truthy(r.msg) THEN ret ELSE [ret EXCEPT !.reply = None]
                /\ cg' = CgAfter("wait", cloc.offset, r, TRUE)
                /\ cloc' = NoOffset
           ELSE /\ cloc' = [offset |-> r.offset, frags |-> r.frags]
                /\ cg' = CgAfter("wait", cloc.offset, r, FALSE)
                /\ UNCHANGED <<cpc, cstate, cret>>
    /\ tick' = ~tick
    /\ UNCHANGED <<geminiVars, dispatchVars, restVars, sys, nw, log, cprev>>

FreshLogs == { <<>> } \cup { <<[rec |-> rec, w |-> 3]>> : rec \in CodexRecs }

CodexProducer ==
    \/ \E rec \in CodexRecs : AppendLine(rec)
    \/ \E rec \in CodexRecs : AppendPartial(rec)
    \/ GrowPartial
    \/ CompleteLine
    \/ \E fresh \in FreshLogs : Rotate(fresh)

CodexReader ==
    \/ CodexCaptureState
    \/ CodexTryGetMessage
    \/ CodexTryGetPrev
    \/ CodexWaitBegin
    \/ \E expired \in BOOLEAN : CodexWaitIter(expired)

NextCodex == CodexProducer \/ CodexReader

(***************************************************************************)
(* Codex: properties                                                       *)
(***************************************************************************)
\* C36: on a file that only grows, across any sequence of chained
\* try_get_message and wait_for_message calls the checkpoint's byte offset
\* never decreases, never exceeds the current file size, and only ever
\* advances to the position just after a newline-terminated line.
C36_OffsetAdvancesOverWholeLines ==
    [][ ( /\ sys = "codex" /\ ~cg.rot
          /\ CodexTryGetMessage \/ \E expired \in BOOLEAN : CodexWaitIter(expired) )
        => LET before == IF cpc = "wait" THEN cloc.offset ELSE cstate.offset
               after == IF cpc' = "wait" THEN cloc'.offset ELSE cstate'.offset
           IN  /\ after >= before
               /\ after <= FileSize(log)
               /\ after > before
                    => \E i \in DOMAIN log : Complete(log[i]) /\ after = LineEnd(log, i) ]_vars

\* a call moved the offset over a whole line and stopped before the
\* unfinished line that follows it
C36_Witness ==
    /\ sys = "codex" /\ ~cg.rot
    /\ cret.op \in {"try", "wait"}
    /\ TailOpen
    /\ cstate.offset = TailStart
    /\ cstate.offset > cg.turn

\* a try_get_message or wait_for_message call on the chained checkpoint returns
CodexReturns ==
    /\ sys = "codex" /\ tick' # tick
    /\ cpc' = "idle" /\ cret'.op \in {"try", "wait"}

\* a try_get_message call on the chained checkpoint
CodexTryStep ==
    /\ sys = "codex" /\ tick' # tick
    /\ cpc = "idle" /\ cpc' = "idle" /\ cret'.op = "try"

\* the stripped, marker-free texts of the complete assistant lines that lie
\* between byte offsets lo and hi, in file order
TurnFragments(lines, lo, hi) ==
    LET F[k \in 0..Len(lines)] ==
            IF k = 0 THEN <<>>
            ELSE IF /\ Complete(lines[k])
                    /\ lines[k].rec.type = "response_item"
                    /\ LineStart(lines, k) >= lo
                    /\ LineEnd(lines, k) <= hi
                 THEN Append(F[k - 1], CodexClean(Strip(lines[k].rec.text)))
                 ELSE F[k - 1]
    IN  F[Len(lines)]

BlankLineJoin(frags) == JoinWith(NonEmpty(frags), SEP)

\* C2: the reply returned at a marker-terminated record is the blank-line join,
\* in document order, of every assistant fragment appended since the checkpoint
\* the turn began at, also of those an earlier call or loop iteration consumed.
C2_ReplyJoinsAllFragments ==
    [][ (CodexReturns /\ cret'.reply.some /\ ~cg.rot)
          => cret'.reply.text
               = BlankLineJoin(TurnFragments(log, cg.turn, cstate'.offset)) ]_vars

\* C3 (as stated): after wait_for_message returned a reply, the next call with
\* the returned checkpoint returns no reply unless a marker-terminated record
\* was written in between.
C3_NoReplyWithoutNewRecord ==
    cret.after = "no" => ~cret.reply.some

\* C3 (amended): every reply a chained call returns ends at a marker-terminated
\* assistant record that lies beyond the record the previous reply ended at
\* (beyond the baseline for the first reply): no record ends two replies.
C3_NoRecordReturnedTwice ==
    [][ (CodexReturns /\ cret'.reply.some)
          => \E i \in 1..Len(log) :
                /\ Complete(log[i]) /\ IsMarkerRec(log[i].rec)
                /\ LineEnd(log, i) = cstate'.offset
                /\ LineEnd(log, i) > cg.turn ]_vars

\* a further call, after a wait_for_message that returned a reply, has returned
\* a reply of its own
C3_Witness ==
    /\ sys = "codex" /\ cret.after \in {"no", "yes"} /\ cret.reply.some

\* what "returns the full record" asks of a call made once the last line is
\* complete: a reply that ends with that record's text, and the offset at
\* the end of the file
ReturnsLastRecord ==
    /\ cret'.reply.some
    /\ cstate'.offset = FileSize(log)
    /\ LET t == CodexClean(Strip(LastLine.rec.text))
           n == Len(cret'.reply.text)
       IN  n >= Len(t) /\ SubSeq(cret'.reply.text, n - Len(t) + 1, n) = t

\* C4 (as stated): with data after the checkpoint offset that ends in a line
\* without newline, try_get_message neither returns that line nor moves the
\* offset past its start; once the line is completed, a call with the
\* returned checkpoint returns the full record.
C4_PartialLineSafety ==
    [][ /\ (CodexTryStep /\ TailOpen /\ cstate.offset < FileSize(log))
           => cstate'.offset <= TailStart
        /\ (CodexTryStep /\ cg.part = "done" /\ IsMarkerRec(LastLine.rec))
           => ReturnsLastRecord ]_vars

\* C4 (amended): the same, for a checkpoint offset that does not lie inside
\* the unfinished line.
C4_PartialLineSafetyAtLineStart ==
    [][ /\ (CodexTryStep /\ TailOpen /\ cstate.offset < FileSize(log)
                         /\ cstate.offset <= TailStart)
           => cstate'.offset <= TailStart
        /\ (CodexTryStep /\ cg.part = "done" /\ IsMarkerRec(LastLine.rec)
                         /\ cstate.offset <= TailStart)
           => ReturnsLastRecord ]_vars

\* the completed line has been returned by the call that followed a
\* try_get_message made while the line was unfinished
C4_Witness ==
    /\ sys = "codex" /\ cret.op = "try" /\ cret.part = "done"
    /\ cret.reply.some /\ cstate.offset = FileSize(log)

\* what a read of the whole file from offset 0, with no pending fragments,
\* yields: the reply ending at the first marker-terminated record among the
\* complete lines, or no reply and the offset before the unfinished line
FreshRead(lines) ==
    LET open == { i \in 1..Len(lines) : ~Complete(lines[i]) }
        stop == IF open = {} THEN Len(lines)
                ELSE (CHOOSE i \in open : \A j \in open : i <= j) - 1
        ends == { i \in 1..stop : IsMarkerRec(lines[i].rec) }
        first == CHOOSE i \in ends : \A j \in ends : i <= j
    IN  IF ends = {}
        THEN [msg |-> None, offset |-> LineEnd(lines, stop)]
        ELSE [msg |-> Some(BlankLineJoin(TurnFragments(lines, 0, LineEnd(lines, first)))),
              offset |-> LineEnd(lines, first)]

\* C5: a call whose checkpoint offset is greater than the size of the file
\* reads the file from offset 0 with no pending fragments: a marker-terminated
\* assistant record written from offset 0 of the new content is returned.
C5_RestartsAtZeroAfterShrink ==
    [][ /\ (CodexTryStep /\ cstate.offset > FileSize(log))
           => /\ cret'.reply = FreshRead(log).msg
              /\ cstate'.offset = FreshRead(log).offset
        /\ (sys = "codex" /\ tick' # tick /\ cpc = "wait"
                          /\ cloc.offset > FileSize(log))
           => IF Truthy(FreshRead(log).msg)
              THEN /\ cpc' = "idle"
                   /\ cret'.reply = FreshRead(log).msg
                   /\ cstate'.offset = FreshRead(log).offset
              ELSE IF cpc' = "idle"
              THEN ~cret'.reply.some /\ cstate'.offset = FreshRead(log).offset
              ELSE cloc'.offset = FreshRead(log).offset ]_vars

\* a call met an offset beyond the end of the file and returned the record
\* that the new content begins with
C5_Witness ==
    /\ sys = "codex" /\ cret.reset /\ Truthy(cret.reply)
    /\ log # <<>> /\ IsMarkerRec(log[1].rec) /\ cstate.offset = LineEnd(log, 1)

(***************************************************************************)
(* Gemini: the session document and the reader's pure steps                *)
(*                                                                         *)
(* The session file is one JSON document with a "messages" list.  doc.cut  *)
(* is the number of bytes still missing while the producer rewrites the    *)
(* file in place: the file parses only when doc.cut = 0.  A hash is        *)
(* modelled by the text it was computed from.                              *)
(***************************************************************************)
\* the behaviours that run the Gemini reader: over a session file that grows,
\* and over a session file in any condition
GeminiSystems == {"gemini", "gfile"}

UserMsg == [type |-> "user", text |-> <<"q">>]
GeminiTexts == { <<"a", "[", "]">>, <<"b">> }
GeminiMsgs == { UserMsg } \cup [type : {"gemini"}, text : GeminiTexts]

RECURSIVE DocSize(_)
DocSize(msgs) ==
    IF msgs = <<>> THEN 0 ELSE Len(Head(msgs).text) + 1 + DocSize(Tail(msgs))

Parses(d) == d.cut = 0

\* doc.cond tells what the reader finds at the session path: "ok" a file it
\* can open, "missing" no file, "unreadable" a file whose open raises
\* OSError, "nondict" a file of well-formed JSON that is not an object
Opens(d) == d.cond # "unreadable"
IsObject(d) == d.cond # "nondict"

\* a message that is not a JSON object, and the content of a message whose
\* "content" is null
NonObjectMsg == [type |-> "nonobject", text |-> <<>>]
NullContent == <<"null">>

\* str(content) for a content that is not a string
ContentStr(text) == IF text = NullContent THEN <<"N", "o", "n", "e">> ELSE text

\* (msg.get("content") or "")
ContentOrEmpty(text) == IF text = NullContent THEN <<>> ELSE text

\* msg.get("type") on a message that is not an object, or
\* msg.get("content", "").strip() on a null content, raises AttributeError
\* in the loops over messages[prev_count:]
ScanRaises(msgs, prev_count) ==
    \E k \in (prev_count + 1)..Len(msgs) :
        \/ msgs[k] = NonObjectMsg
        \/ msgs[k].type = "gemini" /\ msgs[k].text = NullContent
StatSize(d) == DocSize(d.msgs) - d.cut

\* GeminiLogReader._extract_last_gemini: stripped content of the last
\* message of type "gemini"
ExtractLastGemini(msgs) ==
    LET G == { i \in 1..Len(msgs) : msgs[i].type = "gemini" }
    IN  IF G = {} THEN None
        ELSE Some(Strip(ContentStr(msgs[CHOOSE i \in G : \A j \in G : j <= i].text)))

\* the hash that capture_state and the fall-through of _read_since keep
LastGeminiHash(msgs, otherwise) ==
    LET last == ExtractLastGemini(msgs)
    IN  IF last.some /\ last.text # <<>> THEN last ELSE otherwise

\* the loop over messages[prev_count:] that collects the new assistant texts
\* and skips a text whose hash was seen (the previous reply's, or an earlier
\* one of this batch); idx keeps the positions of the collected messages
ScanNew(msgs, prev_count, prev_hash) ==
    LET F[k \in prev_count..Len(msgs)] ==
            IF k = prev_count
            THEN [seen |-> IF prev_hash.some THEN {prev_hash.text} ELSE {},
                  contents |-> <<>>, idx |-> <<>>,
                  last_hash |-> None, fast |-> FALSE]
            ELSE LET p == F[k - 1]
                     content == Strip(msgs[k].text)
                 IN  IF msgs[k].type # "gemini" \/ content = <<>>
                        \/ content \in p.seen
                     THEN p
                     ELSE [seen |-> p.seen \cup {content},
                           contents |-> Append(p.contents, content),
                           idx |-> Append(p.idx, k),
                           last_hash |-> Some(content),
                           fast |-> p.fast \/ Contains(content, MARKER)]
    IN  F[Len(msgs)]

\* cleaned_contents: both end markers leave a text that holds the reply marker
GeminiClean(c) ==
    IF Contains(c, MARKER) THEN RStrip(Remove(Remove(c, MARKER), LEGACY)) ELSE c

MergedContent(contents) ==
    JoinWith([k \in 1..Len(contents) |-> GeminiClean(contents[k])], SEP)

(***************************************************************************)
(* Gemini: state                                                           *)
(*                                                                         *)
(* gstate is the checkpoint the caller chains, gprev the checkpoint of the *)
(* capture_state call before the last one.  gloc holds the locals of the   *)
(* running call.  gg holds history variables, read by no operation:        *)
(*   base  len(messages) at the last capture_state (-1: not parsed)        *)
(*   got   positions of the messages returned in a reply since then        *)
(*   dup   some message was returned in two replies                        *)
(*   pure  only wait_for_message was called since the last capture_state   *)
(*   cap   number of capture_state calls in a row with no write in between *)
(*   one   "armed": baseline known and nothing written or called since;    *)
(*         "one": then exactly one assistant message ending in the marker  *)
(*         was appended; "got": then a wait_for_message returned a reply   *)
(*         and nothing was written since                                   *)
(***************************************************************************)
NoCheckpoint == [msg_count |-> 0, mtime_ns |-> 0, size |-> 0, hash |-> None]

NoLocals ==
    [op |-> "none", block |-> FALSE, unknown_baseline |-> FALSE,
     prev_count |-> 0, prev_mtime_ns |-> 0, prev_size |-> 0, prev_hash |-> None,
     current_mtime_ns |-> 0, current_size |-> 0, current_count |-> 0,
     gemini_contents |-> <<>>, idx |-> <<>>, last_gemini_hash |-> None,
     attempt |-> 0]

NoGeminiRet == [op |-> "none", reply |-> None, cap |-> 0, one |-> "na", error |-> "none"]

InitDocs ==
    { <<>>,
      <<UserMsg, [type |-> "gemini", text |-> <<"a", "[", "]">>]>>,
      <<UserMsg, [type |-> "gemini", text |-> <<"b">>]>> }

GeminiInit ==
    /\ doc \in { [msgs |-> m, cut |-> 0, mtime_ns |-> 0, cond |-> "ok"] : m \in InitDocs }
    /\ gstate = NoCheckpoint
    /\ gprev = NoCheckpoint
    /\ gpc = "idle"
    /\ gloc = NoLocals
    /\ gret = NoGeminiRet
    /\ gg = [base |-> -1, got |-> {}, dup |-> FALSE, pure |-> TRUE,
             cap |-> 0, one |-> "na"]

\* the Gemini variables in behaviours that exercise another component
GeminiIdle ==
    /\ doc = [msgs |-> <<>>, cut |-> 0, mtime_ns |-> 0, cond |-> "ok"]
    /\ gstate = NoCheckpoint /\ gprev = NoCheckpoint /\ gpc = "idle"
    /\ gloc = NoLocals /\ gret = NoGeminiRet
    /\ gg = [base |-> -1, got |-> {}, dup |-> FALSE, pure |-> TRUE,
             cap |-> 0, one |-> "na"]

EndsInMarker(m) ==
    /\ m.type = "gemini" /\ Len(m.text) >= Len(MARKER)
    /\ OccursAt(m.text, MARKER, Len(m.text) - Len(MARKER) + 1)

\* history bookkeeping for a write
GgWrite(appended, m) ==
    [gg EXCEPT !.cap = 0,
               !.one = IF @ = "armed" /\ appended /\ EndsInMarker(m)
                       THEN "one" ELSE "na"]

\* the producer replaces the file by a document with one more message
GeminiAppend(m) ==
    /\ sys = "gemini" /\ nw < MaxDocWrites
    /\ Parses(doc)
    /\ doc' = [doc EXCEPT !.msgs = Append(@, m), !.mtime_ns = @ + 1]
    /\ gg' = GgWrite(TRUE, m)
    /\ gprev' = NoCheckpoint
    /\ nw' = nw + 1
    /\ UNCHANGED <<codexVars, dispatchVars, restVars, sys, tick, gstate, gpc, gloc, gret>>

\* the producer starts to rewrite the file in place with one more message:
\* until the last bytes are written the file does not parse
GeminiBeginWrite(m) ==
    /\ sys = "gemini" /\ nw < MaxDocWrites
    /\ Parses(doc)
    /\ doc' = [doc EXCEPT !.msgs = Append(@, m), !.cut = 1, !.mtime_ns = @ + 1]
    /\ gg' = GgWrite(FALSE, m)
    /\ gprev' = NoCheckpoint
    /\ nw' = nw + 1
    /\ UNCHANGED <<codexVars, dispatchVars, restVars, sys, tick, gstate, gpc, gloc, gret>>

\* the in-place rewrite completes
GeminiEndWrite ==
    /\ sys = "gemini"
    /\ ~Parses(doc)
    /\ doc' = [doc EXCEPT !.cut = 0, !.mtime_ns = @ + 1]
    /\ gg' = GgWrite(FALSE, UserMsg)
    /\ gprev' = NoCheckpoint
    /\ UNCHANGED <<codexVars, dispatchVars, restVars, sys, tick, nw, gstate, gpc, gloc, gret>>

(***************************************************************************)
(* Gemini: reader operations                                               *)
(***************************************************************************)
CheckpointOf(loc) ==
    [msg_count |-> loc.prev_count, mtime_ns |-> loc.prev_mtime_ns,
     size |-> loc.prev_size, hash |-> loc.prev_hash]

LocalsOf(op, block, state) ==
    [NoLocals EXCEPT !.op = op, !.block = block,
                     !.unknown_baseline = state.msg_count < 0,
                     !.prev_count = state.msg_count,
                     !.prev_mtime_ns = state.mtime_ns,
                     !.prev_size = state.size,
                     !.prev_hash = state.hash]

\* a call returns (reply, state); delivered holds the positions of the
\* messages the reply was built from
GeminiReturn(reply, state, delivered) ==
    /\ gpc' = "idle"
    /\ gloc' = NoLocals
    /\ gret' = [op |-> gloc.op, reply |-> reply, cap |-> gg.cap, one |-> gg.one,
                error |-> "none"]
    /\ IF gloc.op = "tryprev"
       THEN UNCHANGED <<gstate, gprev, gg>>
       ELSE /\ gstate' = state
            /\ gprev' = NoCheckpoint
            /\ gg' = [gg EXCEPT !.got = @ \cup delivered,
                                !.dup = @ \/ (delivered \cap gg.got # {}),
                                !.cap = 0,
                                !.one = IF gloc.op # "wait" THEN "na"
                                        ELSE IF @ = "one" /\ reply.some THEN "got"
                                        ELSE IF @ = "got" THEN "na"
                                        ELSE @]

\* an exception the call does not catch reaches the caller, who gets neither
\* a reply nor a state
GeminiRaise(error) ==
    /\ gpc' = "idle"
    /\ gloc' = NoLocals
    /\ gret' = [op |-> gloc.op, reply |-> None, cap |-> gg.cap, one |-> gg.one,
                error |-> error]
    /\ UNCHANGED <<gstate, gprev, gg>>

\* the call goes on: next loop iteration, or into the marker loop
GeminiGoOn(pc, loc) ==
    /\ gpc' = pc
    /\ gloc' = loc
    /\ UNCHANGED <<gstate, gprev, gret, gg>>

\* a read that yields nothing ends the call, whatever the deadline
GeminiGivesUp(loc, expired) == GeminiReturn(None, CheckpointOf(loc), {})

\* after a read that yields nothing: a non-blocking call returns, a blocking
\* one waits for a change and returns once the deadline has passed
GeminiNothingYet(loc, expired) ==
    IF ~loc.block \/ expired
    THEN GeminiReturn(None, CheckpointOf(loc), {})
    ELSE GeminiGoOn("stat", loc)

\* GeminiLogReader.capture_state: session.stat()
GeminiCaptureReturn(state) ==
    /\ gpc' = "idle"
    /\ gloc' = NoLocals
    /\ gstate' = state
    /\ gprev' = IF gg.cap >= 1 THEN gstate ELSE NoCheckpoint
    /\ gret' = [NoGeminiRet EXCEPT !.op = "capture"]
    /\ gg' = [base |-> state.msg_count, got |-> {}, dup |-> FALSE,
              pure |-> TRUE,
              cap |-> IF gg.cap >= 1 THEN 2 ELSE 1,
              one |-> IF state.msg_count >= 0 THEN "armed" ELSE "na"]

\* capture_state reports no messages for a file it could not load
CountsFailureAsEmpty(d, loaded) == IF loaded THEN Len(d.msgs) ELSE 0

\* capture_state: msg_count once the retry loop has ended; loaded tells
\* whether data was set
CaptureCount(d, loaded) == IF loaded THEN Len(d.msgs) ELSE -1

\* GeminiLogReader.capture_state: session.exists() and session.stat()
GeminiCaptureStat ==
    /\ sys \in GeminiSystems /\ gpc = "idle"
    /\ IF doc.cond = "missing"
       THEN GeminiCaptureReturn(NoCheckpoint)
       ELSE /\ gpc' = "capture"
            /\ gloc' = [NoLocals EXCEPT !.op = "capture",
                                        !.current_mtime_ns = doc.mtime_ns,
                                        !.current_size = StatSize(doc)]
            /\ UNCHANGED <<gstate, gprev, gret, gg>>
    /\ tick' = ~tick
    /\ UNCHANGED <<codexVars, dispatchVars, restVars, sys, nw, doc>>

\* GeminiLogReader.capture_state: one attempt of the json.load retry loop,
\* the last one followed by the construction of the returned state
GeminiCaptureParse ==
    /\ sys \in GeminiSystems /\ gpc = "capture"
    /\ IF Opens(doc) /\ ~Parses(doc) /\ gloc.attempt < CaptureAttempts - 1
       THEN GeminiGoOn("capture", [gloc EXCEPT !.attempt = @ + 1])
       ELSE LET loaded == Opens(doc) /\ Parses(doc) /\ IsObject(doc)
            IN  GeminiCaptureReturn(
                    [msg_count |-> CaptureCount(doc, loaded),
                     mtime_ns |-> gloc.current_mtime_ns,
                     size |-> gloc.current_size,
                     hash |-> IF loaded THEN ExtractLastGemini(doc.msgs) ELSE None])
    /\ tick' = ~tick
    /\ UNCHANGED <<codexVars, dispatchVars, restVars, sys, nw, doc>>

\* GeminiLogReader.try_get_message(state): entry of _read_since(block=False)
\* up to session.stat(); src tells which checkpoint the caller passes
GeminiTryBegin(src) ==
    /\ sys \in GeminiSystems /\ gpc = "idle"
    /\ src = "prev" => gg.cap = 2
    /\ gpc' = "read"
    /\ gloc' = [LocalsOf(IF src = "prev" THEN "tryprev" ELSE "try", FALSE,
                         IF src = "prev" THEN gprev ELSE gstate)
                  EXCEPT !.current_mtime_ns = doc.mtime_ns,
                         !.current_size = StatSize(doc)]
    /\ gg' = IF src = "prev" THEN gg ELSE [gg EXCEPT !.pure = FALSE]
    /\ tick' = ~tick
    /\ UNCHANGED <<codexVars, dispatchVars, restVars, sys, nw, doc, gstate, gprev, gret>>

\* GeminiLogReader.wait_for_message(state, timeout): entry of
\* _read_since(block=True)
GeminiWaitBegin ==
    /\ sys \in GeminiSystems /\ gpc = "idle"
    /\ gpc' = "stat"
    /\ gloc' = LocalsOf("wait", TRUE, gstate)
    /\ gg' = [gg EXCEPT !.cap = 0]
    /\ gprev' = NoCheckpoint
    /\ tick' = ~tick
    /\ UNCHANGED <<codexVars, dispatchVars, restVars, sys, nw, doc, gstate, gret>>

\* _read_since, top of the while loop of a blocking call: session.stat() and
\* the unchanged-file gate.  outcome "read": the forced-read interval has
\* elapsed or the watcher reported an event; "timeout": the watcher reported
\* nothing and the deadline has passed; "again": it reported nothing
GeminiStat(outcome) ==
    /\ sys \in GeminiSystems /\ gpc = "stat"
    /\ LET current_mtime_ns == doc.mtime_ns
           current_size == StatSize(doc)
           unchanged == /\ current_mtime_ns <= gloc.prev_mtime_ns
                        /\ current_size = gloc.prev_size
       IN  /\ unchanged \/ doc.cond = "missing" \/ outcome = "read"
           /\ doc.cond = "missing" => outcome # "read"
           /\ IF doc.cond = "missing" /\ outcome = "timeout"
              THEN GeminiReturn(None, gstate, {})
              ELSE IF outcome = "timeout"
              THEN GeminiReturn(None, CheckpointOf(gloc), {})
              ELSE IF outcome = "again"
              THEN GeminiGoOn("stat", gloc)
              ELSE GeminiGoOn("read", [gloc EXCEPT !.current_mtime_ns = current_mtime_ns,
                                                   !.current_size = current_size])
    /\ tick' = ~tick
    /\ UNCHANGED <<codexVars, dispatchVars, restVars, sys, nw, doc>>

\* the unknown-baseline branch never takes the last message for a reply
LastIsNeverNewReply(messages, loc) == FALSE

\* _read_since, unknown baseline: the last message is an assistant message
\* with text and the file's stat differs from the checkpoint's
LastIsNewReply(messages, loc) ==
    /\ messages # <<>>
    /\ messages[Len(messages)].type = "gemini"
    /\ Strip(ContentOrEmpty(messages[Len(messages)].text)) # <<>>
    /\ \/ loc.current_mtime_ns > loc.prev_mtime_ns
       \/ loc.current_size # loc.prev_size

\* _read_since: json.load of the session file and everything that follows in
\* the iteration, up to the return, the next iteration or the marker loop;
\* expired is time.time() >= deadline
GeminiRead(expired) ==
    /\ sys \in GeminiSystems /\ gpc = "read"
    /\ LET messages == doc.msgs
           current_count == Len(messages)
           last_content == IF messages = <<>> THEN <<>>
                           ELSE Strip(ContentOrEmpty(messages[current_count].text))
           last == ExtractLastGemini(messages)
           base == [gloc EXCEPT !.prev_count = current_count,
                                !.prev_mtime_ns = gloc.current_mtime_ns,
                                !.prev_size = gloc.current_size]
           sc == ScanNew(messages, gloc.prev_count, gloc.prev_hash)
       IN  IF doc.cond = "missing"
           THEN GeminiReturn(None,
                             IF gloc.block THEN gstate
                             ELSE [NoCheckpoint EXCEPT !.hash = gloc.prev_hash],
                             {})
           ELSE IF ~Opens(doc) \/ ~Parses(doc)
           THEN GeminiNothingYet(gloc, expired)
           ELSE IF ~IsObject(doc)
           THEN GeminiRaise("AttributeError")
           ELSE IF ~gloc.unknown_baseline /\ current_count > gloc.prev_count
                   /\ ScanRaises(messages, gloc.prev_count)
           THEN GeminiRaise("AttributeError")
           ELSE IF gloc.unknown_baseline
           THEN IF LastIsNewReply(messages, gloc)
                THEN GeminiReturn(Some(GeminiClean(last_content)),
                                  [msg_count |-> current_count,
                                   mtime_ns |-> gloc.current_mtime_ns,
                                   size |-> gloc.current_size,
                                   hash |-> Some(GeminiClean(last_content))],
                                  {current_count})
                ELSE GeminiNothingYet(
                        [base EXCEPT !.unknown_baseline = FALSE,
                                     !.prev_hash = IF ~last.some THEN @
                                                   ELSE IF last.text # <<>> THEN last
                                                   ELSE None],
                        expired)
           ELSE IF current_count > gloc.prev_count
           THEN IF sc.contents = <<>>
                THEN GeminiNothingYet(base, expired)
                ELSE IF gloc.block /\ ~sc.fast
                THEN GeminiGoOn("marker",
                                [gloc EXCEPT !.current_count = current_count,
                                             !.gemini_contents = sc.contents,
                                             !.idx = sc.idx,
                                             !.last_gemini_hash = sc.last_hash])
                ELSE GeminiReturn(Some(MergedContent(sc.contents)),
                                  [msg_count |-> current_count,
                                   mtime_ns |-> gloc.current_mtime_ns,
                                   size |-> gloc.current_size,
                                   hash |-> sc.last_hash],
                                  { sc.idx[k] : k \in 1..Len(sc.idx) })
           ELSE GeminiNothingYet(
                    [base EXCEPT !.prev_hash = LastGeminiHash(messages, @)],
                    expired)
    /\ tick' = ~tick
    /\ UNCHANGED <<codexVars, dispatchVars, restVars, sys, nw, doc>>

\* _read_since: the reply is built from gemini_contents and returned
GeminiFinish(loc) ==
    GeminiReturn(Some(MergedContent(loc.gemini_contents)),
                 [msg_count |-> loc.current_count,
                  mtime_ns |-> loc.current_mtime_ns,
                  size |-> loc.current_size,
                  hash |-> loc.last_gemini_hash],
                 { loc.idx[k] : k \in 1..Len(loc.idx) })

ReplaceLast(contents, c) == [contents EXCEPT ![Len(contents)] = c]

\* _read_since: one iteration of the loop that waits for the end marker once
\* new assistant text without marker was found; marker_expired is
\* time.time() >= marker_deadline
GeminiMarkerIter(marker_expired) ==
    /\ sys \in GeminiSystems /\ gpc = "marker"
    /\ LET messages2 == doc.msgs
           sc == ScanNew(messages2, gloc.prev_count, gloc.prev_hash)
           rebuilt == [gloc EXCEPT !.gemini_contents = sc.contents,
                                   !.idx = sc.idx,
                                   !.last_gemini_hash =
                                       IF sc.last_hash.some THEN sc.last_hash ELSE @]
           marked == \E k \in (gloc.prev_count + 1)..Len(messages2) :
                        /\ messages2[k].type = "gemini"
                        /\ Contains(Strip(messages2[k].text), MARKER)
           last2 == ExtractLastGemini(messages2)
           replaced == [gloc EXCEPT !.gemini_contents =
                                        IF gloc.gemini_contents # <<>>
                                           /\ gloc.last_gemini_hash.some
                                        THEN ReplaceLast(@, last2.text) ELSE @,
                                    !.last_gemini_hash = last2]
       IN  IF marker_expired \/ ~Opens(doc) \/ ~Parses(doc) \/ doc.cond = "missing"
           THEN GeminiFinish(gloc)
           ELSE IF ~IsObject(doc) \/ ScanRaises(messages2, gloc.prev_count)
           THEN GeminiRaise("AttributeError")
           ELSE IF Len(messages2) > gloc.current_count
           THEN IF sc.fast
                THEN GeminiFinish([rebuilt EXCEPT !.current_count = Len(messages2)])
                ELSE GeminiGoOn("marker",
                                [rebuilt EXCEPT !.current_count = Len(messages2)])
           ELSE IF marked
           THEN GeminiFinish(rebuilt)
           ELSE IF Truthy(last2) /\ Contains(last2.text, MARKER)
           THEN GeminiFinish(replaced)
           ELSE IF Truthy(last2) /\ last2 # gloc.last_gemini_hash
           THEN GeminiGoOn("marker", replaced)
           ELSE GeminiGoOn("marker", gloc)
    /\ tick' = ~tick
    /\ UNCHANGED <<codexVars, dispatchVars, restVars, sys, nw, doc>>

GeminiProducer ==
    \/ \E m \in GeminiMsgs : GeminiAppend(m)
    \/ \E m \in GeminiMsgs : GeminiBeginWrite(m)
    \/ GeminiEndWrite

GeminiReader ==
    \/ GeminiCaptureStat
    \/ GeminiCaptureParse
    \/ \E src \in {"chain", "prev"} : GeminiTryBegin(src)
    \/ GeminiWaitBegin
    \/ \E outcome \in {"read", "timeout", "again"} : GeminiStat(outcome)
    \/ \E expired \in BOOLEAN : GeminiRead(expired)
    \/ \E marker_expired \in BOOLEAN : GeminiMarkerIter(marker_expired)

NextGemini == GeminiProducer \/ GeminiReader

(***************************************************************************)
(* Gemini: the reader over a session file in any condition                 *)
(*                                                                         *)
(* The file may be missing, unreadable, cut short, or hold well-formed     *)
(* JSON of another shape; its last assistant message may carry either end  *)
(* marker, and the producer may rewrite that message in place.             *)
(***************************************************************************)
GfileTexts ==
    { <<"b">>, <<"b", "[", "]">>, <<"b", "{", "}">>, <<"b", "{", "}", "[", "]">> }

GfileMsgLists ==
    { <<>>, <<UserMsg, NonObjectMsg>> }
      \cup { <<UserMsg, [type |-> "gemini", text |-> t]>> :
                t \in GfileTexts \cup {NullContent} }

GfileDocs ==
    { [msgs |-> m, cut |-> 0, mtime_ns |-> 0, cond |-> "ok"] : m \in GfileMsgLists }
      \cup { [msgs |-> <<UserMsg, [type |-> "gemini", text |-> <<"b">>]>>,
              cut |-> 1, mtime_ns |-> 0, cond |-> "ok"] }
      \cup { [msgs |-> <<>>, cut |-> 0, mtime_ns |-> 0, cond |-> c] :
                c \in {"missing", "unreadable", "nondict"} }

GfileInit ==
    /\ doc \in GfileDocs
    /\ gstate = NoCheckpoint
    /\ gprev = NoCheckpoint
    /\ gpc = "idle"
    /\ gloc = NoLocals
    /\ gret = NoGeminiRet
    /\ gg = [base |-> -1, got |-> {}, dup |-> FALSE, pure |-> TRUE,
             cap |-> 0, one |-> "na"]

\* the producer rewrites the file in place with another text for the last
\* assistant message: the number of messages stays, size and mtime change
GfileRewrite(text) ==
    /\ sys = "gfile" /\ nw < MaxDocWrites
    /\ doc.cond = "ok" /\ doc.msgs # <<>>
    /\ doc.msgs[Len(doc.msgs)].type = "gemini"
    /\ doc.msgs[Len(doc.msgs)].text # text
    /\ doc' = [doc EXCEPT !.msgs[Len(doc.msgs)].text = text,
                          !.cut = 0, !.mtime_ns = @ + 1]
    /\ nw' = nw + 1
    /\ gg' = GgWrite(FALSE, UserMsg)
    /\ gprev' = NoCheckpoint
    /\ UNCHANGED <<codexVars, dispatchVars, restVars, sys, tick, gstate, gpc, gloc, gret>>

\* a call that keeps no state returns reply, or raises error
GeminiAnswer(op, reply, error) ==
    /\ gret' = [NoGeminiRet EXCEPT !.op = op, !.reply = reply, !.error = error]
    /\ tick' = ~tick
    /\ UNCHANGED <<codexVars, dispatchVars, restVars, sys, nw, doc, gstate, gprev, gpc,
                   gloc, gg>>

\* GeminiLogReader.latest_message
GeminiLatestMessage ==
    /\ sys = "gfile" /\ gpc = "idle"
    /\ LET messages == doc.msgs
           G == { i \in 1..Len(messages) : messages[i].type = "gemini" }
           last == IF G = {} THEN 0 ELSE CHOOSE i \in G : \A j \in G : j <= i
       IN  IF doc.cond = "missing" \/ ~Opens(doc) \/ ~Parses(doc)
           THEN GeminiAnswer("latest", None, "none")
           ELSE IF ~IsObject(doc)
           THEN GeminiAnswer("latest", None, "AttributeError")
           ELSE IF \E k \in (last + 1)..Len(messages) : messages[k] = NonObjectMsg
           THEN GeminiAnswer("latest", None, "AttributeError")
           ELSE IF last = 0
           THEN GeminiAnswer("latest", None, "none")
           ELSE IF messages[last].text = NullContent
           THEN GeminiAnswer("latest", None, "AttributeError")
           ELSE GeminiAnswer("latest", Some(Strip(messages[last].text)), "none")

\* latest_conversations: the loop that pairs each question with the next
\* answer; question is current_question
RECURSIVE Conversations(_, _)
Conversations(messages, question) ==
    IF messages = <<>> THEN <<>>
    ELSE LET msg == Head(messages)
             content == Strip(msg.text)
             clean_content == Strip(Remove(Remove(content, MARKER), LEGACY))
         IN  IF msg.type = "user" /\ content # <<>>
             THEN Conversations(Tail(messages), Some(content))
             ELSE IF msg.type = "gemini" /\ content # <<>> /\ Truthy(question)
                     /\ clean_content # <<>>
             THEN <<[question |-> question.text, answer |-> clean_content]>>
                    \o Conversations(Tail(messages), None)
             ELSE Conversations(Tail(messages), question)

\* GeminiLogReader.latest_conversations(n=1): the answer of the pair returned
GeminiLatestConversations ==
    /\ sys = "gfile" /\ gpc = "idle"
    /\ LET messages == doc.msgs
           conversations == Conversations(messages, None)
       IN  IF doc.cond = "missing" \/ ~Opens(doc) \/ ~Parses(doc)
           THEN GeminiAnswer("conversations", None, "none")
           ELSE IF ~IsObject(doc)
           THEN GeminiAnswer("conversations", None, "AttributeError")
           ELSE IF \E k \in 1..Len(messages) :
                      messages[k] = NonObjectMsg \/ messages[k].text = NullContent
           THEN GeminiAnswer("conversations", None, "AttributeError")
           ELSE IF conversations = <<>>
           THEN GeminiAnswer("conversations", None, "none")
           ELSE GeminiAnswer("conversations",
                             Some(conversations[Len(conversations)].answer), "none")

NextGfile ==
    \/ \E text \in GfileTexts : GfileRewrite(text)
    \/ GeminiReader
    \/ GeminiLatestMessage
    \/ GeminiLatestConversations

(***************************************************************************)
(* Gemini: properties                                                      *)
(***************************************************************************)
IsReply(m) == m.type = "gemini" /\ Strip(m.text) # <<>>

\* the text of a message without the reply marker and what surrounds it
MarkerStripped(t) == RStrip(Remove(Strip(t), MARKER))

\* C1: over any sequence of appends and chained wait_for_message calls on
\* one file, every non-empty assistant message appended after the baseline
\* is contained in exactly one returned reply, whatever its text: when a
\* call returns, no message at or before the returned count is missing
\* from the replies, and none was returned twice.
C1_EveryMessageInExactlyOneReply ==
    (sys = "gemini" /\ gpc = "idle" /\ gret.op = "wait" /\ gg.pure /\ gg.base >= 0)
      => /\ ~gg.dup
         /\ \A i \in (gg.base + 1)..gstate.msg_count :
               IsReply(doc.msgs[i]) => i \in gg.got

\* C6: after a baseline with count k, one appended assistant message that
\* ends in the marker makes wait_for_message return its text without the
\* marker and a checkpoint with count k+1; a second wait_for_message with
\* that checkpoint and no further change returns no reply.
C6_AppendedReplyThenNothing ==
    [][ /\ (sys = "gemini" /\ tick' # tick /\ gpc = "read"
                           /\ gloc.op = "wait" /\ gg.one = "one")
           => /\ gpc' = "idle"
              /\ gret'.reply = Some(MarkerStripped(doc.msgs[Len(doc.msgs)].text))
              /\ gstate'.msg_count = gg.base + 1
        /\ (sys = "gemini" /\ tick' # tick /\ gloc.op = "wait"
                           /\ gpc' = "idle" /\ gg.one = "got")
           => ~gret'.reply.some ]_vars

\* C7: a wait_for_message that began with an unknown baseline and reads a
\* file that parses, whose last message is an assistant message ending in
\* the marker, and whose stat differs from the checkpoint's, returns that
\* message.
C7_UnknownBaselineReturnsLast ==
    [][ (sys = "gemini" /\ tick' # tick /\ gpc = "read" /\ gloc.op = "wait"
           /\ gstate.msg_count < 0 /\ gloc.unknown_baseline
           /\ Parses(doc) /\ doc.msgs # <<>>
           /\ EndsInMarker(doc.msgs[Len(doc.msgs)])
           /\ (gloc.current_mtime_ns > gstate.mtime_ns
                 \/ gloc.current_size # gstate.size))
          => /\ gpc' = "idle"
             /\ gret'.reply = Some(MarkerStripped(doc.msgs[Len(doc.msgs)].text))
             /\ gstate'.msg_count = Len(doc.msgs) ]_vars

\* a baseline was captured while the file did not parse, and the
\* wait_for_message that followed returned the last message of the
\* rewritten file
C7_Witness ==
    /\ sys = "gemini" /\ gpc = "idle" /\ gret.op = "wait"
    /\ gg.base = -1 /\ gg.pure /\ gg.got = {Len(doc.msgs)}
    /\ gret.reply = Some(<<"a">>) /\ gstate.hash = Some(<<"a">>)

\* an assistant message that carries the completion marker
IsCompleteTurn(m) == m.type = "gemini" /\ Contains(Strip(m.text), MARKER)

\* the messages behind a count that are assistant messages with text
NewReplies(msgs, count) ==
    {k \in 1..Len(msgs) : k > count /\ IsReply(msgs[k])}

\* C24: with an unknown baseline, on the first successful parse after a
\* detected size or modification-time change, the last message is returned
\* as the reply only if it is a complete assistant turn (assistant role
\* and containing the completion marker); otherwise nothing is returned
\* for that parse, the parse becomes the baseline and the wait continues.
C24_UnknownBaselineNeedsCompleteTurn ==
    [][ ( /\ \E expired \in BOOLEAN : GeminiRead(expired)
          /\ gloc.op = "wait"
          /\ gloc.unknown_baseline
          /\ Parses(doc) )
        => /\ (gpc' = "idle" /\ gret'.reply.some)
                => /\ doc.msgs # <<>>
                   /\ IsCompleteTurn(doc.msgs[Len(doc.msgs)])
           /\ gpc' # "idle"
                => /\ ~gloc'.unknown_baseline
                   /\ gloc'.prev_count = Len(doc.msgs) ]_vars

\* C26: a blocking wait that has extracted new assistant content without
\* the completion marker returns that content only once the marker has
\* appeared or the secondary deadline has elapsed; an open or parse failure
\* while re-reading during this catch-up is retried and does not end the
\* catch-up early.
C26_CatchUpEndsAtMarkerOrDeadline ==
    [][ GeminiMarkerIter(FALSE)
        => /\ gpc' = "idle"
                => \E k \in NewReplies(doc.msgs, gloc.prev_count) :
                      IsCompleteTurn(doc.msgs[k])
           /\ ~Parses(doc) => gpc' = "marker" ]_vars

\* C28: try_get_message decides completeness as wait_for_message does: it
\* returns a reply only when the new assistant content contains the
\* completion marker, and otherwise returns no reply without advancing the
\* checkpoint past the still-streaming message.
C28_TryDecidesCompletenessAsWait ==
    [][ ( /\ \E expired \in BOOLEAN : GeminiRead(expired)
          /\ gloc.op = "try"
          /\ ~gloc.unknown_baseline
          /\ Parses(doc) )
        => LET new == NewReplies(doc.msgs, gloc.prev_count)
               complete == \E k \in new : IsCompleteTurn(doc.msgs[k])
           IN /\ gret'.reply.some => complete
              /\ (new # {} /\ ~complete)
                   => \A k \in new : gstate'.msg_count < k ]_vars

\* C21: capture_state, try_get_message and wait_for_message never raise when
\* the target file is missing, unreadable, or holds content that does not
\* parse as the expected document, well-formed JSON of an unexpected shape
\* included: the only outcomes are a reply or the no-reply result.
C21_ReaderCallsNeverRaise ==
    (sys = "gfile" /\ gret.op \in {"capture", "try", "tryprev", "wait"})
      => gret.error = "none"

\* C22: no text returned by wait_for_message, try_get_message, latest_message
\* or latest_conversations of the mutable-document reader contains the
\* end-of-turn marker or the legacy marker, whether or not the primary marker
\* is also present in the message.
C22_NoMarkerInReturnedText ==
    (sys = "gfile" /\ gret.reply.some)
      => /\ ~Contains(gret.reply.text, MARKER)
         /\ ~Contains(gret.reply.text, LEGACY)

\* C27: when the last assistant message was rewritten in place to its final
\* marker-terminated text while the message count equals the checkpoint's
\* count (only size and modification time changed), the wait_for_message
\* that reads the file with that checkpoint returns the completed text.
C27_InPlaceCompletionIsReturned ==
    [][ ( /\ sys = "gfile"
          /\ \E expired \in BOOLEAN : GeminiRead(expired)
          /\ gloc.op = "wait" /\ ~gloc.unknown_baseline
          /\ doc.cond = "ok" /\ Parses(doc) /\ doc.msgs # <<>>
          /\ Len(doc.msgs) = gloc.prev_count
          /\ EndsInMarker(doc.msgs[Len(doc.msgs)])
          /\ Truthy(gloc.prev_hash)
          /\ gloc.prev_hash.text # Strip(doc.msgs[Len(doc.msgs)].text)
          /\ gloc.current_mtime_ns > gloc.prev_mtime_ns
          /\ gloc.current_size # gloc.prev_size )
        => /\ gpc' = "idle"
           /\ gret'.reply = Some(GeminiClean(Strip(doc.msgs[Len(doc.msgs)].text))) ]_vars

\* C29: capture_state returns message count -1 exactly when a session file
\* exists but could not be loaded as a document, at the tenth attempt on
\* decode errors and at once on an I/O error; otherwise the count is the
\* number of messages in the document, or 0 when no session file exists.
C29_CaptureCountTellsFailure ==
    [][ /\ ( /\ sys = "gfile" /\ (GeminiCaptureStat \/ GeminiCaptureParse)
             /\ gpc' = "idle" )
          => LET exists == doc.cond # "missing"
                 failed == exists /\ ~(Opens(doc) /\ Parses(doc) /\ IsObject(doc))
             IN  /\ gstate'.msg_count = -1 <=> failed
                 /\ ~exists => gstate'.msg_count = 0
                 /\ (exists /\ ~failed) => gstate'.msg_count = Len(doc.msgs)
                 /\ (Opens(doc) /\ ~Parses(doc)) => gloc.attempt = CaptureAttempts - 1
        /\ (sys = "gfile" /\ GeminiCaptureParse /\ ~Opens(doc)) => gpc' = "idle" ]_vars

\* capture_state gave up on a file cut short and reported -1
C29_Witness ==
    /\ sys = "gfile" /\ gret.op = "capture"
    /\ doc.cond = "ok" /\ doc.cut = 1
    /\ gstate.msg_count = -1

(***************************************************************************)
(* Both readers                                                            *)
(***************************************************************************)
\* C8: of two capture_state calls in a row with no change of the file
\* between them, each yields a checkpoint with which try_get_message, the
\* file still unchanged, returns no reply.
C8_CaptureTwiceThenNothing ==
    [][ /\ (sys = "codex" /\ tick' # tick /\ cpc = "idle" /\ cpc' = "idle"
              /\ cret'.op \in {"try", "tryprev"} /\ cg.cap = 2)
           => ~cret'.reply.some
        /\ (sys = "gemini" /\ tick' # tick /\ gpc = "read" /\ gg.cap = 2
              /\ gloc.op \in {"try", "tryprev"})
           => gpc' = "idle" /\ ~gret'.reply.some ]_vars

\* try_get_message has returned for the checkpoint of the first of two
\* capture_state calls on a file that holds messages
C8_Witness ==
    \/ /\ sys = "codex" /\ cret.op = "tryprev" /\ cg.cap = 2 /\ log # <<>>
       /\ cprev.offset = FileSize(log) /\ ~cret.reply.some
    \/ /\ sys = "gemini" /\ gret.op = "tryprev" /\ gret.cap = 2
       /\ doc.msgs # <<>> /\ ~gret.reply.some

(***************************************************************************)
(* Both readers: the deadline of wait_for_message                          *)
(***************************************************************************)
\* a step of a running wait_for_message call taken while
\* time.time() < deadline
CodexStepBeforeDeadline == CodexWaitIter(FALSE)

GeminiStepBeforeDeadline ==
    /\ gloc.op = "wait"
    /\ \/ GeminiStat("read")
       \/ GeminiStat("again")
       \/ GeminiRead(FALSE)
       \/ \E marker_expired \in BOOLEAN : GeminiMarkerIter(marker_expired)

\* C17: wait_for_message returns a no-reply result only at or after its
\* deadline; before the deadline it keeps waiting, or returns a reply
\* together with an advanced checkpoint: one that lies behind the record
\* that completed the reply (Codex), or counts more messages than the
\* checkpoint passed in (Gemini).
C17_NoReplyOnlyAtDeadline ==
    [][ /\ CodexStepBeforeDeadline
           => \/ cpc' = "wait"
              \/ /\ Truthy(cret'.reply)
                 /\ \E i \in 1..Len(log) :
                       /\ cstate'.offset = LineEnd(log, i)
                       /\ IsMarkerRec(log[i].rec)
        /\ GeminiStepBeforeDeadline
           => \/ gpc' # "idle"
              \/ /\ Truthy(gret'.reply)
                 /\ gstate'.msg_count > gstate.msg_count ]_vars

\* a wait_for_message call has returned no reply on a file that was
\* written to
C17_Witness ==
    \/ sys = "codex" /\ cret.op = "wait" /\ ~cret.reply.some /\ nw > 0
    \/ sys = "gemini" /\ gret.op = "wait" /\ ~gret.reply.some /\ nw > 0

(***************************************************************************)
(* Dispatcher: broadcast.parallel_ask                                      *)
(*                                                                         *)
(* env[p] is the state of provider p's session ("none": no active session, *)
(* "unhealthy": the health check fails, "ok"); replies[p] tells whether    *)
(* the provider answers a message it is sent before the deadline.          *)
(***************************************************************************)
Providers == {"codex", "gemini"}

\* provider lists a caller passes: the default, one provider, a repeated
\* provider, and a name that is no provider
ProviderLists ==
    { <<"codex", "gemini">>, <<"gemini", "codex">>, <<"codex">>, <<"gemini">>,
      <<"codex", "codex">>, <<"codex", "other">> }

\* the methods with which a communicator can send: those that
\* CodexCommunicator and GeminiCommunicator define or inherit
CommunicatorMethods(provider) == {"ask_async", "ask_sync", "_send_payload"}

\* the method _send_and_wait calls to send
SendMethod(provider) ==
    IF provider = "codex" THEN "_send_message" ELSE "_send_via_terminal"

NoResults == [q \in {} |-> None]

Put(map, key, value) ==
    [q \in DOMAIN map \cup {key} |-> IF q = key THEN value ELSE map[q]]

Result(provider, success, reply, error) ==
    [provider |-> provider, success |-> success, reply |-> reply,
     error |-> error, sent |-> FALSE]

\* the arguments of a call: cmd tells whether parallel_ask was entered
\* through cmd_ask, json whether output is in JSON mode
Request(providers, timeout, wait, cmd, json) ==
    [providers |-> providers, timeout |-> timeout, wait |-> wait,
     cmd |-> cmd, json |-> json]

NoRequest == Request(<<>>, 0, TRUE, FALSE, FALSE)

\* the timeouts a caller passes, in seconds
Timeouts == {0, 5}

\* _send_and_wait: the timeout it passes to wait_for_message
WaitTimeout(timeout) == IF timeout > 0 THEN timeout ELSE DefaultWaitTimeout

\* _get_communicator(provider): the exception it raises, or "none"
GetCommunicatorError(provider) ==
    IF provider \notin Providers THEN "Unknown provider"
    ELSE IF env[provider] = "none" THEN "No active session"
    ELSE "none"

DispatchInit ==
    /\ env \in [Providers -> {"none", "unhealthy", "ok"}]
    /\ replies \in [Providers -> BOOLEAN]
    /\ dpc = "idle"
    /\ dreq = NoRequest
    /\ rc = -1
    /\ avail = <<>>
    /\ di = 0
    /\ fut = <<>>
    /\ results = NoResults
    /\ xmit = {}

\* the dispatcher's variables in behaviours that exercise another component
DispatchIdle ==
    /\ env = [p \in Providers |-> "none"]
    /\ replies = [p \in Providers |-> FALSE]
    /\ dpc = "idle"
    /\ dreq = NoRequest
    /\ rc = -1
    /\ avail = <<>>
    /\ di = 0
    /\ fut = <<>>
    /\ results = NoResults
    /\ xmit = {}

\* a session starts, ends or becomes unhealthy while the dispatcher runs
SessionChange(p, v) ==
    /\ sys = "dispatch" /\ nw < MaxSessionChanges
    /\ dpc \notin {"idle", "done", "exit"}
    /\ env[p] # v
    /\ env' = [env EXCEPT ![p] = v]
    /\ nw' = nw + 1
    /\ UNCHANGED <<codexVars, geminiVars, restVars, sys, tick, replies, dpc, dreq, rc,
                   avail, di, fut, results, xmit>>

\* parallel_ask(message, providers, timeout, wait): entry, called by a
\* program that imports the module
ParallelAsk(providers, timeout, wait) ==
    /\ sys = "dispatch" /\ dpc = "idle"
    /\ dreq' = Request(providers, timeout, wait, FALSE, FALSE)
    /\ dpc' = "filter"
    /\ di' = 1
    /\ UNCHANGED <<codexVars, geminiVars, restVars, sys, tick, nw, env, replies, rc,
                   avail, fut, results, xmit>>

\* the providers cmd_ask accepts
valid_providers == {"codex", "gemini"}

\* cmd_ask(args): the message and the providers are checked, then
\* parallel_ask is entered
CmdAsk(has_message, providers, timeout, wait, json) ==
    /\ sys = "dispatch" /\ dpc = "idle"
    /\ dreq' = Request(providers, timeout, wait, TRUE, json)
    /\ IF ~has_message \/ {providers[k] : k \in 1..Len(providers)} \ valid_providers # {}
       THEN dpc' = "exit" /\ rc' = 1 /\ di' = 0
       ELSE dpc' = "filter" /\ rc' = rc /\ di' = 1
    /\ UNCHANGED <<codexVars, geminiVars, restVars, sys, tick, nw, env, replies, avail,
                   fut, results, xmit>>

\* flush_json(exit_code)
flush_json(exit_code) == exit_code

\* cmd_ask: the exit code, once parallel_ask has returned its results
CmdAskExitCode(res, json) ==
    IF DOMAIN res = {} THEN 1
    ELSE IF json THEN flush_json(0)
    ELSE IF \E p \in DOMAIN res : ~res[p].success THEN 1
    ELSE 0

\* cmd_ask: parallel_ask has returned; the output and the return
CmdAskReturn ==
    /\ sys = "dispatch" /\ dpc = "done" /\ dreq.cmd
    /\ rc' = CmdAskExitCode(results, dreq.json)
    /\ dpc' = "exit"
    /\ UNCHANGED <<codexVars, geminiVars, restVars, sys, tick, nw, env, replies, dreq,
                   avail, di, fut, results, xmit>>

\* parallel_ask: one iteration of the loop that keeps the available
\* providers, and what follows the last one
FilterProvider ==
    /\ sys = "dispatch" /\ dpc = "filter"
    /\ LET provider == dreq.providers[di]
           available_providers ==
               IF GetCommunicatorError(provider) = "none"
               THEN Append(avail, provider) ELSE avail
       IN  /\ avail' = available_providers
           /\ IF di < Len(dreq.providers)
              THEN /\ di' = di + 1
                   /\ UNCHANGED <<dpc, fut>>
              ELSE IF available_providers = <<>>
              THEN /\ dpc' = "done"
                   /\ di' = 0
                   /\ UNCHANGED fut
              ELSE IF ~dreq.wait
              THEN /\ dpc' = "fire"
                   /\ di' = 1
                   /\ UNCHANGED fut
              ELSE /\ dpc' = "collect"
                   /\ di' = 0
                   /\ fut' = [k \in 1..Len(available_providers) |->
                                 [provider |-> available_providers[k],
                                  st |-> "submitted",
                                  steps |-> <<>>,
                                  result |-> Result(available_providers[k],
                                                    FALSE, None, "none")]]
    /\ UNCHANGED <<codexVars, geminiVars, restVars, sys, tick, nw, env, replies, dreq,
                   rc, results, xmit>>

\* parallel_ask, wait=False: one iteration of the fire-and-forget loop;
\* ask_async catches what the health check or the send raises
FireAndForget(send_ok) ==
    /\ sys = "dispatch" /\ dpc = "fire"
    /\ LET provider == avail[di]
           error == GetCommunicatorError(provider)
       IN  /\ results' = Put(results, provider,
                             IF error = "none"
                             THEN [Result(provider, TRUE, None, "none")
                                     EXCEPT !.sent = TRUE]
                             ELSE Result(provider, FALSE, None, error))
           /\ xmit' = IF error = "none" /\ env[provider] = "ok" /\ send_ok
                      THEN xmit \cup {provider} ELSE xmit
    /\ IF di < Len(avail)
       THEN di' = di + 1 /\ UNCHANGED dpc
       ELSE di' = 0 /\ dpc' = "done"
    /\ UNCHANGED <<codexVars, geminiVars, restVars, sys, tick, nw, env, replies, dreq,
                   rc, avail, fut>>

\* the reader's wait_for_message(state, timeout) as the dispatcher sees it:
\* a wait of timeout seconds ends with the reply of a provider that
\* answers, and with no reply at its deadline otherwise
WaitForReply(provider, timeout) ==
    IF replies[provider] /\ timeout > 0 THEN Some(<<"r">>) ELSE None

\* _send_and_wait in a pool thread: _get_communicator and the health check
WorkerCheck(k) ==
    /\ sys = "dispatch" /\ dpc = "collect"
    /\ k \in 1..Len(fut) /\ fut[k].st = "submitted"
    /\ LET provider == fut[k].provider
           error == GetCommunicatorError(provider)
       IN  fut' = [fut EXCEPT ![k] =
                     IF error # "none"
                     THEN [@ EXCEPT !.st = "done",
                                    !.result = Result(provider, FALSE, None, error)]
                     ELSE IF env[provider] # "ok"
                     THEN [@ EXCEPT !.st = "done",
                                    !.result = Result(provider, FALSE, None,
                                                      "Session unhealthy")]
                     ELSE [@ EXCEPT !.st = "healthy"]]
    /\ UNCHANGED <<codexVars, geminiVars, restVars, sys, tick, nw, env, replies, dpc,
                   dreq, rc, avail, di, results, xmit>>

\* _send_and_wait once the session is healthy: the calls it completes on
\* the communicator and its reader, in order; a call to a method the
\* communicator lacks raises and ends the task
WorkerSteps(provider) ==
    IF SendMethod(provider) \notin CommunicatorMethods(provider) THEN <<>>
    ELSE IF provider = "codex"
    THEN <<SendMethod(provider), "wait_for_message">>
    ELSE <<SendMethod(provider), "capture_state", "wait_for_message">>

\* _send_and_wait in a pool thread: the send, the wait for the reply and
\* the result
WorkerSendAndWait(k) ==
    /\ sys = "dispatch" /\ dpc = "collect"
    /\ k \in 1..Len(fut) /\ fut[k].st = "healthy"
    /\ LET provider == fut[k].provider
           raises == SendMethod(provider) \notin CommunicatorMethods(provider)
           reply == WaitForReply(provider, WaitTimeout(dreq.timeout))
           result == IF raises
                     THEN Result(provider, FALSE, None, "AttributeError")
                     ELSE IF reply.some
                     THEN Result(provider, TRUE, reply, "none")
                     ELSE Result(provider, FALSE, None, "Timeout waiting for reply")
       IN  /\ fut' = [fut EXCEPT ![k] = [@ EXCEPT !.st = "done", !.result = result,
                                                  !.steps = WorkerSteps(provider)]]
           /\ xmit' = IF raises THEN xmit ELSE xmit \cup {provider}
    /\ UNCHANGED <<codexVars, geminiVars, restVars, sys, tick, nw, env, replies, dpc,
                   dreq, rc, avail, di, results>>

\* parallel_ask: as_completed yields a finished future and its result is
\* stored under its provider
CollectResult(k) ==
    /\ sys = "dispatch" /\ dpc = "collect"
    /\ k \in 1..Len(fut) /\ fut[k].st = "done"
    /\ fut' = [fut EXCEPT ![k].st = "collected"]
    /\ results' = Put(results, fut[k].provider, fut[k].result)
    /\ dpc' = IF \A j \in 1..Len(fut) : j # k => fut[j].st = "collected"
              THEN "done" ELSE "collect"
    /\ UNCHANGED <<codexVars, geminiVars, restVars, sys, tick, nw, env, replies, dreq,
                   rc, avail, di, xmit>>

NextDispatch ==
    \/ \E p \in Providers, v \in {"none", "unhealthy", "ok"} : SessionChange(p, v)
    \/ \E providers \in ProviderLists, timeout \in Timeouts, wait \in BOOLEAN :
          ParallelAsk(providers, timeout, wait)
    \/ \E has_message \in BOOLEAN, providers \in ProviderLists,
          timeout \in Timeouts, wait \in BOOLEAN, json \in BOOLEAN :
          CmdAsk(has_message, providers, timeout, wait, json)
    \/ CmdAskReturn
    \/ FilterProvider
    \/ \E send_ok \in BOOLEAN : FireAndForget(send_ok)
    \/ \E k \in 1..2 : WorkerCheck(k)
    \/ \E k \in 1..2 : WorkerSendAndWait(k)
    \/ \E k \in 1..2 : CollectResult(k)

(***************************************************************************)
(* Dispatcher: properties                                                  *)
(***************************************************************************)
\* both requested providers had a healthy session from start to end
BothHealthy == nw = 0 /\ \A p \in Providers : env[p] = "ok"

\* C9: in wait mode with two healthy providers, the first of which never
\* replies while the second does, the map returned holds both: the first
\* with success=false and the timeout error, the second with success=true
\* and its reply.
C9_TimeoutAndReplySideBySide ==
    (/\ sys = "dispatch" /\ dpc = "done" /\ dreq.wait
     /\ dreq.providers = <<"codex", "gemini">> /\ BothHealthy
     /\ ~replies["codex"] /\ replies["gemini"])
      => /\ DOMAIN results = {"codex", "gemini"}
         /\ ~results["codex"].success
         /\ results["codex"].error = "Timeout waiting for reply"
         /\ results["gemini"].success
         /\ results["gemini"].reply.some

\* C10: the map returned has one entry for every requested provider,
\* whatever failed for it, and an entry records its own provider's outcome.
C10_EntryForEveryProvider ==
    (sys = "dispatch" /\ dpc = "done")
      => /\ \A k \in 1..Len(dreq.providers) :
               dreq.providers[k] \in Providers
                 => dreq.providers[k] \in DOMAIN results
         /\ \A p \in DOMAIN results : results[p].provider = p

\* every provider the caller requested has an entry that records a success
EveryRequestedSucceeded ==
    \A k \in 1..Len(dreq.providers) :
        /\ dreq.providers[k] \in DOMAIN results
        /\ results[dreq.providers[k]].success

\* C11: cmd_ask returns exit code 0 exactly when every requested provider
\* succeeded and 1 otherwise, in plain and in JSON output mode, and also
\* when a requested provider was unavailable.
C11_ExitCodeTellsSuccess ==
    (sys = "dispatch" /\ dpc = "exit")
      => /\ rc \in {0, 1}
         /\ rc = 0 <=> EveryRequestedSucceeded

\* C30: in fire-and-forget mode (wait=false), parallel_ask never invokes a
\* reader's wait, and a provider's result has success=true only if its
\* message was actually transmitted: a failed health check or a transmit
\* failure gives that provider success=false with an error, without
\* affecting the other providers' results.
C30_FireAndForgetSuccessMeansSent ==
    (sys = "dispatch" /\ ~dreq.wait /\ dpc \in {"done", "exit"})
      => /\ fut = <<>>
         /\ \A p \in DOMAIN results :
               IF p \in xmit
               THEN results[p].success
               ELSE ~results[p].success /\ results[p].error # "none"

\* the errors with which a task ends before it sends
PrecheckErrors == {"Unknown provider", "No active session", "Session unhealthy"}

\* C31: in every dispatcher worker task, for every provider, the steps run
\* in the order of the communicator protocol: the baseline checkpoint is
\* captured before the message is transmitted, and the wait that follows
\* uses that checkpoint.  A task that passed the health check and ended
\* has completed capture_state, then the send, then wait_for_message.
C31_WorkerFollowsProtocolOrder ==
    sys = "dispatch"
      => \A k \in DOMAIN fut :
            ( /\ fut[k].st \in {"done", "collected"}
              /\ fut[k].result.error \notin PrecheckErrors )
              => \E a, b, c \in DOMAIN fut[k].steps :
                    /\ a < b /\ b < c
                    /\ fut[k].steps[a] = "capture_state"
                    /\ fut[k].steps[b] = SendMethod(fut[k].provider)
                    /\ fut[k].steps[c] = "wait_for_message"

\* C32: during one parallel_ask invocation each key of the result map is
\* written at most once and exactly one task runs per provider, for every
\* provider list the command's validation accepts, a list that names the
\* same provider more than once included: no two tasks (wait mode) and no
\* two iterations of the fire-and-forget loop are for the same provider,
\* and no two collected results go under the same key.
C32_OneTaskAndOneWritePerProvider ==
    ( /\ sys = "dispatch"
      /\ {dreq.providers[k] : k \in DOMAIN dreq.providers} \subseteq valid_providers )
      => /\ \A i, j \in DOMAIN avail : avail[i] = avail[j] => i = j
         /\ \A i, j \in DOMAIN fut :
               (fut[i].provider = fut[j].provider
                  /\ fut[i].st = "collected" /\ fut[j].st = "collected") => i = j

\* C18: with timeout 0 the dispatcher waits for each provider's reply
\* without limit: in wait mode with timeout 0 the task of a provider that
\* passed the checks before the send ends with the provider's reply only,
\* never with a timeout error or another failure of the wait.
C18_TimeoutZeroWaitsWithoutLimit ==
    (sys = "dispatch" /\ dreq.wait /\ dreq.timeout = 0)
      => \A k \in DOMAIN fut :
            (/\ fut[k].st \in {"done", "collected"}
             /\ fut[k].result.error \notin PrecheckErrors)
              => /\ fut[k].result.success
                 /\ fut[k].result.reply.some
                 /\ fut[k].result.error # "Timeout waiting for reply"

(***************************************************************************)
(* Communicator: BaseCommunicator.ask_sync and ask_async                   *)
(*                                                                         *)
(* One communicator object, for the provider areq.provider, runs one call. *)
(* The provider writes its replies to the file the communicator's reader   *)
(* follows (log for Codex, doc for Gemini), every reply a complete record  *)
(* that ends in the reply marker.  A wait_for_message call is one step:    *)
(* the read of the file with which the call ends.                          *)
(* ag holds history variables, read by no operation:                       *)
(*   health  what the health check reported ("na": not run)                *)
(*   xmit    number of messages transmitted                                *)
(*   waits   number of wait_for_message calls started                      *)
(*   slice   the timeout passed to the last wait_for_message call          *)
(*   sent_at number of records in the file when the message was            *)
(*           transmitted (-1: nothing transmitted)                         *)
(*   base    the checkpoint _send_payload captured                         *)
(***************************************************************************)
AskTexts == { <<"a", "[", "]">>, <<"b", "_", "[", "]">> }

\* BaseCommunicator.default_timeout and GeminiCommunicator.default_timeout
CodexDefaultTimeout == 30
GeminiDefaultTimeout == 60
\* the timeout _wait_unlimited passes to wait_for_message
SliceSeconds == 30

\* timeout=None
NoTimeout == -1

AskRequest(provider, op, timeout) ==
    [provider |-> provider, op |-> op, timeout |-> timeout, wait_timeout |-> NoTimeout]

NoHandler ==
    [tty |-> FALSE, setting |-> "unset", platform |-> "posix",
     answer |-> "none", overdue |-> FALSE, action |-> "none"]

NotReturned == [done |-> FALSE, value |-> "none", text |-> <<>>]
Returned(value, text) == [done |-> TRUE, value |-> value, text |-> text]

NoAskHistory ==
    [health |-> "na", xmit |-> 0, waits |-> 0, slice |-> 0, sent_at |-> -1,
     base |-> NoOffset]

AskInit ==
    /\ areq \in { AskRequest(p, "none", NoTimeout) : p \in Providers }
    /\ apc = "idle"
    /\ ast = NoOffset
    /\ ahand = NoHandler
    /\ aret = NotReturned
    /\ ag = NoAskHistory

\* the communicator's variables in behaviours that exercise another component
AskIdle ==
    /\ areq = AskRequest("codex", "none", NoTimeout)
    /\ apc = "idle"
    /\ ast = NoOffset
    /\ ahand = NoHandler
    /\ aret = NotReturned
    /\ ag = NoAskHistory

\* number of records in the file of the communicator's provider
AskFileLen == IF areq.provider = "codex" THEN Len(log) ELSE Len(doc.msgs)

\* the reader's capture_state(), per provider
ReaderCaptureState(provider) ==
    IF provider = "codex"
    THEN [offset |-> FileSize(log), frags |-> <<>>]
    ELSE [msg_count |-> Len(doc.msgs), mtime_ns |-> doc.mtime_ns,
          size |-> StatSize(doc), hash |-> ExtractLastGemini(doc.msgs)]

\* GeminiLogReader._read_since on a file that parses, from a known
\* baseline: the read with which wait_for_message ends
GeminiReadSince(state) ==
    LET messages == doc.msgs
        current_count == Len(messages)
        sc == ScanNew(messages, state.msg_count, state.hash)
        seen == [msg_count |-> current_count, mtime_ns |-> doc.mtime_ns,
                 size |-> StatSize(doc), hash |-> state.hash]
    IN  IF current_count > state.msg_count
        THEN IF sc.contents = <<>>
             THEN [msg |-> None, state |-> seen]
             ELSE [msg |-> Some(MergedContent(sc.contents)),
                   state |-> [seen EXCEPT !.hash = sc.last_hash]]
        ELSE [msg |-> None,
              state |-> [seen EXCEPT !.hash = LastGeminiHash(messages, @)]]

\* the reader's wait_for_message(state, timeout), per provider: the
\* (message, new_state) it returns when its last read finds the file as it
\* is now
ReaderWaitForMessage(provider, state) ==
    IF provider = "codex"
    THEN LET r == ExtractMessageFromData(log, state.offset)
         IN  [msg |-> IF Truthy(r.msg) THEN r.msg ELSE None,
              state |-> [offset |-> r.offset, frags |-> r.frags]]
    ELSE GeminiReadSince(state)

\* the provider writes a reply: a turn before the call, or its answer to
\* the message it was sent
ProviderReplies(text) ==
    /\ sys = "ask" /\ nw < MaxReplies
    /\ apc = "idle" \/ ag.xmit > 0
    /\ ~aret.done
    /\ IF areq.provider = "codex"
       THEN /\ log' = Append(log, [rec |-> [type |-> "response_item", text |-> text],
                                   w |-> 3])
            /\ UNCHANGED doc
       ELSE /\ doc' = [doc EXCEPT !.msgs = Append(@, [type |-> "gemini", text |-> text]),
                                  !.mtime_ns = @ + 1]
            /\ UNCHANGED log
    /\ nw' = nw + 1
    /\ UNCHANGED <<dispatchVars, askVars, pathVars, bindVars, normVars, moreVars, sys, tick, cstate,
                   cprev,
                   cpc, cloc,
                   cret, cg, gstate, gprev, gpc, gloc, gret, gg>>

\* every step of a call leaves the files and the other components alone
AskFrame ==
    UNCHANGED <<codexVars, geminiVars, dispatchVars, pathVars, bindVars, normVars, moreVars, sys,
                tick, nw>>

\* a call that ends by returning value
AskReturn(pc, value, text) ==
    /\ apc' = pc
    /\ aret' = Returned(value, text)

\* every failed call returns None
FailureIsNone(op) == "None"

\* what a call returns when an exception reaches its except clause
FailureValue(op) == IF op = "sync" THEN "None" ELSE "False"

\* ask_sync(question, timeout) and ask_async(question), up to the
\* checkpoint _send_payload captures: the health check, and
\* log_reader.capture_state() if the session is healthy
AskBegin(op, timeout, healthy) ==
    /\ sys = "ask" /\ apc = "idle"
    /\ areq' = [areq EXCEPT !.op = op, !.timeout = timeout]
    /\ IF ~healthy
       THEN /\ AskReturn("failed", FailureValue(op), <<>>)
            /\ ag' = [ag EXCEPT !.health = "bad"]
            /\ UNCHANGED ast
       ELSE /\ apc' = "captured"
            /\ ast' = ReaderCaptureState(areq.provider)
            /\ ag' = [ag EXCEPT !.health = "ok",
                                !.base = ReaderCaptureState(areq.provider)]
            /\ UNCHANGED aret
    /\ UNCHANGED ahand
    /\ AskFrame

\* _send_payload: the message is written to the provider's pane or FIFO,
\* which may raise; ask_async then returns True
Transmit(send_ok) ==
    /\ sys = "ask" /\ apc = "captured"
    /\ IF ~send_ok
       THEN /\ AskReturn("failed", FailureValue(areq.op), <<>>)
            /\ UNCHANGED ag
       ELSE /\ ag' = [ag EXCEPT !.xmit = @ + 1, !.sent_at = AskFileLen]
            /\ IF areq.op = "async"
               THEN AskReturn("done", "True", <<>>)
               ELSE apc' = "sent" /\ UNCHANGED aret
    /\ UNCHANGED <<areq, ast, ahand>>
    /\ AskFrame

\* values of the <PROVIDER>_SYNC_TIMEOUT setting
SyncTimeoutSettings == {"unset", "0", "x"}

DefaultTimeout(provider) ==
    IF provider = "codex" THEN CodexDefaultTimeout ELSE GeminiDefaultTimeout

\* ask_sync: wait_timeout, or -1 when int() raises ValueError
ResolveTimeout(provider, timeout, setting) ==
    IF timeout # NoTimeout THEN timeout
    ELSE IF setting = "unset" THEN DefaultTimeout(provider)
    ELSE IF setting = "0" THEN 0
    ELSE -1

\* no timeout selects _wait_unlimited
NeverUnlimited(wait_timeout) == FALSE

\* ask_sync: timeout 0 selects _wait_unlimited
UnlimitedWait(wait_timeout) == wait_timeout = 0

\* the timeout the wait loops pass to wait_for_message
SliceTimeout(wait_timeout) ==
    IF UnlimitedWait(wait_timeout) THEN SliceSeconds ELSE wait_timeout

\* a wait_for_message call starts
StartSlice(wait_timeout) ==
    [ag EXCEPT !.waits = IF @ < MaxSlices THEN @ + 1 ELSE @,
               !.slice = SliceTimeout(wait_timeout)]

\* ask_sync: the timeout is determined and the first wait_for_message call
\* starts, in _wait_unlimited or in _wait_with_timeout
StartWait(setting) ==
    /\ sys = "ask" /\ apc = "sent"
    /\ LET wait_timeout == ResolveTimeout(areq.provider, areq.timeout, setting)
       IN  IF wait_timeout = -1
           THEN /\ AskReturn("failed", "None", <<>>)
                /\ UNCHANGED <<areq, ag>>
           ELSE /\ areq' = [areq EXCEPT !.wait_timeout = wait_timeout]
                /\ apc' = "waiting"
                /\ ag' = StartSlice(wait_timeout)
                /\ UNCHANGED aret
    /\ UNCHANGED <<ast, ahand>>
    /\ AskFrame

\* _wait_unlimited and _wait_with_timeout: wait_for_message returns, with a
\* reply or at its deadline; the reply is returned, the next slice starts,
\* or the timeout handler is entered
WaitReturns ==
    /\ sys = "ask" /\ apc = "waiting"
    /\ LET r == ReaderWaitForMessage(areq.provider, ast)
       IN  /\ ast' = r.state
           /\ IF Truthy(r.msg)
              THEN AskReturn("replied", "reply", r.msg.text) /\ UNCHANGED ag
              ELSE IF UnlimitedWait(areq.wait_timeout)
              THEN /\ apc' = "waiting"
                   /\ ag' = StartSlice(areq.wait_timeout)
                   /\ UNCHANGED aret
              ELSE apc' = "timed_out" /\ UNCHANGED <<aret, ag>>
    /\ UNCHANGED <<areq, ahand>>
    /\ AskFrame

\* values of the CCB_TIMEOUT_ACTION setting
ActionSettings == {"unset", "wait", "WAIT", "background", "cancel", "junk"}

\* str.lower() and str.strip().lower() on the values that occur
Lower(str) == IF str = "WAIT" THEN "wait" ELSE IF str = "B_" THEN "b" ELSE str

\* the default action is Wait whatever the setting
DefaultIsWait(setting) == "wait"

\* _handle_timeout_interactive, not a TTY: the configured default
DefaultAction(setting) ==
    LET default_action == Lower(IF setting = "unset" THEN "cancel" ELSE setting)
    IN  IF default_action = "wait" THEN "wait"
        ELSE IF default_action = "background" THEN "background"
        ELSE "cancel"

\* _handle_timeout_interactive: the action for the choice read
ChoiceAction(choice) ==
    IF choice = "w" THEN "wait"
    ELSE IF choice = "b" THEN "background"
    ELSE "cancel"

\* the timeout handler returns every action but Wait as Wait
ApplyAsWait(action) ==
    /\ apc' = "waiting"
    /\ ag' = StartSlice(areq.wait_timeout)
    /\ UNCHANGED aret

\* _wait_with_timeout: what follows the handler's action
ApplyAction(action) ==
    IF action = "wait"
    THEN /\ apc' = "waiting"
         /\ ag' = StartSlice(areq.wait_timeout)
         /\ UNCHANGED aret
    ELSE IF action = "background"
    THEN AskReturn("backgrounded", "None", <<>>) /\ UNCHANGED ag
    ELSE AskReturn("cancelled", "None", <<>>) /\ UNCHANGED ag

\* _handle_timeout_interactive(wait_timeout): entry.  Without a TTY the
\* default action is returned; with one the menu is printed and the input
\* is awaited
HandleTimeout(tty, setting, platform) ==
    /\ sys = "ask" /\ apc = "timed_out"
    /\ IF ~tty
       THEN /\ ahand' = [NoHandler EXCEPT !.setting = setting,
                                          !.action = DefaultAction(setting)]
            /\ ApplyAction(DefaultAction(setting))
       ELSE /\ ahand' = [NoHandler EXCEPT !.tty = TRUE, !.platform = platform]
            /\ apc' = "prompt"
            /\ UNCHANGED <<aret, ag>>
    /\ UNCHANGED <<areq, ast>>
    /\ AskFrame

\* what the user types at the prompt: a line, or end of input ("eof")
Answers == {"w", "b", "B_", "c", "x", "", "eof"}

\* _handle_timeout_interactive: a line is read from the prompt, or reading
\* raises
PromptAnswered(answer) ==
    /\ sys = "ask" /\ apc = "prompt"
    /\ LET choice == IF answer = "eof" THEN "c" ELSE Lower(answer)
       IN  /\ ahand' = [ahand EXCEPT !.answer = answer, !.action = ChoiceAction(choice)]
           /\ ApplyAction(ChoiceAction(choice))
    /\ UNCHANGED <<areq, ast>>
    /\ AskFrame

\* _handle_timeout_interactive: ten seconds pass and nothing is typed.
\* select() returns and the choice is "c"; on win32 input() has no timeout
\* and goes on blocking
PromptUnanswered ==
    /\ sys = "ask" /\ apc = "prompt" /\ ~ahand.overdue
    /\ IF ahand.platform # "win32"
       THEN /\ ahand' = [ahand EXCEPT !.overdue = TRUE, !.action = ChoiceAction("c")]
            /\ ApplyAction(ChoiceAction("c"))
       ELSE /\ ahand' = [ahand EXCEPT !.overdue = TRUE]
            /\ UNCHANGED <<apc, aret, ag>>
    /\ UNCHANGED <<areq, ast>>
    /\ AskFrame

NextAsk ==
    \/ \E text \in AskTexts : ProviderReplies(text)
    \/ \E op \in {"sync", "async"}, timeout \in {NoTimeout, 0, 5}, healthy \in BOOLEAN :
          AskBegin(op, timeout, healthy)
    \/ \E send_ok \in BOOLEAN : Transmit(send_ok)
    \/ \E setting \in SyncTimeoutSettings : StartWait(setting)
    \/ WaitReturns
    \/ \E tty \in BOOLEAN, setting \in ActionSettings, platform \in {"posix", "win32"} :
          HandleTimeout(tty, setting, platform)
    \/ \E answer \in Answers : PromptAnswered(answer)
    \/ PromptUnanswered

(***************************************************************************)
(* Communicator: properties                                                *)
(***************************************************************************)
\* the state of a call in the terms of the specification: the prompt of the
\* timeout handler belongs to TIMED_OUT
AskPhase(pc) == IF pc = "prompt" THEN "timed_out" ELSE pc

TerminalPhases == {"replied", "backgrounded", "cancelled"}

C13_ReplyAfterTransmitIsReturned ==
    [][ (/\ sys = "ask" /\ apc = "waiting" /\ nw' = nw
         /\ ast = ag.base /\ ag.sent_at >= 0 /\ AskFileLen > ag.sent_at)
         => apc' = "replied" /\ aret'.value = "reply" ]_vars

\* C14: if the health check reports the session unhealthy, ask_sync,
\* ask_async and the dispatcher's worker task transmit nothing and start no
\* wait, and report the failure at once, without retry: None, False, and
\* success=false with an error that names the unhealthy status.
C14_UnhealthyFailsFast ==
    [][ /\ (sys = "ask" /\ apc = "idle" /\ ag'.health = "bad")
            => /\ apc' = "failed" /\ aret'.done
               /\ aret'.value = (IF areq'.op = "sync" THEN "None" ELSE "False")
               /\ ag'.xmit = 0 /\ ag'.waits = 0
        /\ (sys = "ask" /\ apc = "failed") => UNCHANGED askVars
        /\ \A k \in DOMAIN fut :
              (/\ sys = "dispatch" /\ fut[k].st = "submitted"
               /\ fut'[k].st # "submitted"
               /\ env[fut[k].provider] = "unhealthy")
                => /\ fut'[k].st = "done"
                   /\ ~fut'[k].result.success
                   /\ fut'[k].result.error = "Session unhealthy"
                   /\ ~fut'[k].result.sent
                   /\ xmit' = xmit ]_vars

\* a call has failed on the health check, or a worker task has ended with
\* the unhealthy-session error while the other provider's task still runs
C14_Witness ==
    \/ sys = "ask" /\ ag.health = "bad" /\ apc = "failed" /\ areq.op = "async"
    \/ /\ sys = "dispatch" /\ Len(fut) = 2
       /\ fut[1].st = "done" /\ fut[1].result.error = "Session unhealthy"
       /\ fut[2].st = "healthy"

HandlerEntered == ahand.tty \/ ahand.action # "none"
HandlerReturned == HandlerEntered /\ apc # "prompt"

\* what the handler yields for its inputs, apart from an unanswered prompt
HandlerYieldsAsSpecified ==
    /\ HandlerReturned => ahand.action \in {"wait", "background", "cancel"}
    /\ (HandlerEntered /\ ~ahand.tty)
         => /\ ahand.setting \in {"wait", "WAIT"} => ahand.action = "wait"
            /\ ahand.setting = "background" => ahand.action = "background"
            /\ ahand.setting \in {"unset", "cancel", "junk"} => ahand.action = "cancel"
    /\ (ahand.tty /\ ahand.answer # "none" /\ Lower(ahand.answer) \notin {"w", "b"})
         => ahand.action = "cancel"

\* C16: the timeout handler always yields exactly one of Wait, Background,
\* Cancel: without an interactive terminal the configured default, which is
\* Cancel when the setting is unset or unrecognised; with one, Cancel if
\* the prompt is not answered within its input timeout or the answer is
\* neither w nor b.
C16_TimeoutHandlerYields ==
    sys = "ask"
      => /\ HandlerYieldsAsSpecified
         /\ (ahand.tty /\ ahand.overdue /\ ahand.answer = "none")
              => HandlerReturned /\ ahand.action = "cancel"

\* C16 as amended: the unanswered prompt yields Cancel after its input
\* timeout on every platform but win32, where the prompt has no input
\* timeout and goes on waiting for the answer.
C16_TimeoutHandlerYieldsOffWindows ==
    sys = "ask"
      => /\ HandlerYieldsAsSpecified
         /\ (ahand.tty /\ ahand.overdue /\ ahand.answer = "none")
              => IF ahand.platform # "win32"
                 THEN HandlerReturned /\ ahand.action = "cancel"
                 ELSE apc = "prompt" /\ ahand.action = "none"

\* the prompt was left unanswered for its input timeout and the call was
\* cancelled
C16_Witness ==
    /\ sys = "ask" /\ ahand.tty /\ ahand.overdue /\ ahand.answer = "none"
    /\ ahand.platform = "posix" /\ ahand.action = "cancel" /\ apc = "cancelled"

\* C33: within one ask_sync the message is transmitted exactly once however
\* many times Wait is chosen; each repeated wait uses the same timeout and
\* the checkpoint the previous wait returned, so that across the repeated
\* waits no reply is skipped: a wait that ends while the file holds a
\* record written after the transmit returns a reply.
C33_RepeatedWaitsKeepTheReply ==
    [][ (sys = "ask" /\ areq'.op = "sync" /\ areq'.wait_timeout > 0)
         => /\ ag'.xmit <= 1
            /\ apc' \in {"waiting", "timed_out", "prompt", "replied"} => ag'.xmit = 1
            /\ (AskPhase(apc) = "timed_out" /\ apc' = "waiting")
                 => /\ ag'.xmit = ag.xmit
                    /\ ag'.slice = areq.wait_timeout /\ ag.slice = areq.wait_timeout
                    /\ ast' = ast
            /\ (apc = "waiting" /\ nw' = nw /\ ag.waits >= 1
                  /\ ag.sent_at >= 0 /\ AskFileLen > ag.sent_at)
                 => apc' = "replied" /\ aret'.value = "reply" ]_vars

\* the same for the append-only reader alone
CodexRepeatedWaitsKeepTheReply ==
    [][ areq.provider = "codex" => C33_RepeatedWaitsKeepTheReply!1 ]_vars

(***************************************************************************)
(* Log readers: the preferred log (current_log_path, _latest_session)      *)
(***************************************************************************)
\* bound: the modification times of the existing files run from 1 to
\* MaxMtime; 0 stands for a file that does not exist
MaxMtime == 2

\* the candidate files under the reader's root, each in a project directory
Paths == {"p/a", "p/b", "q/c"}
ProjectOf(path) == IF path = "q/c" THEN "q" ELSE "p"
NoPath == "none"

ReaderKinds == {"codex", "gemini"}

\* the session a Codex log file belongs to (the id in its file name)
SessionOf(path) == IF path = "p/a" THEN "sa" ELSE IF path = "p/b" THEN "sb" ELSE "sc"
NoFilter == "none"

\* the reader object: its class, _preferred_log, _project_hash and, for the
\* Codex reader, _session_id_filter
Reader(kind, preferred, project_hash, session_id_filter) ==
    [kind |-> kind, preferred |-> preferred, project_hash |-> project_hash,
     session_id_filter |-> session_id_filter]

\* what every session file of the Gemini provider holds: a question and a
\* complete reply
SessionMsgs == <<UserMsg, [type |-> "gemini", text |-> <<"a", "[", "]">>]>>

\* what the last call returned: the path, and for a reader call the reply,
\* msg_count and last_gemini_hash of the returned state
NoPathReturned ==
    [called |-> FALSE, path |-> NoPath, msg_count |-> 0, hash |-> None, reply |-> None]

\* the orders in which glob can yield the files
ListingOrders ==
    {order \in [1..Cardinality(Paths) -> Paths] :
        \A i, j \in DOMAIN order : order[i] = order[j] => i = j}

PathInit ==
    /\ fsys = [path \in Paths |-> 0]
    /\ listing \in ListingOrders
    /\ rd \in {Reader("gemini", NoPath, "p", NoFilter)}
                \cup {Reader("codex", NoPath, "p", f) : f \in {NoFilter, "sa"}}
    /\ pret = NoPathReturned
    /\ pg = [reset |-> FALSE]

PathIdle ==
    /\ fsys = [path \in Paths |-> 0]
    /\ listing = CHOOSE order \in ListingOrders : TRUE
    /\ rd = Reader("codex", NoPath, "p", NoFilter)
    /\ pret = NoPathReturned
    /\ pg = [reset |-> FALSE]

\* path and path.exists()
Exists(fs, path) == path # NoPath /\ fs[path] > 0

\* the existing files of a set whose modification time no other one exceeds
Newest(fs, among) ==
    {path \in among : fs[path] > 0 /\ \A other \in among : fs[other] <= fs[path]}

\* the last of the newest files in the order of the listing, None without
\* files: the loop of CodexLogReader._scan_latest keeps a later file of
\* equal modification time, and so does the last element of a stable sort
LastNewest(fs, among, order) ==
    LET newest == Newest(fs, among)
    IN IF newest = {} THEN NoPath
       ELSE order[CHOOSE i \in DOMAIN order :
                     /\ order[i] \in newest
                     /\ \A j \in DOMAIN order : order[j] \in newest => j <= i]

CodexScanLatest(fs, order) == LastNewest(fs, Paths, order)

GeminiScanAnyProject(fs, order) == LastNewest(fs, Paths, order)

GeminiScanLatestSession(fs, order, r) ==
    LET sessions == LastNewest(fs, {path \in Paths : ProjectOf(path) = r.project_hash},
                               order)
    IN IF sessions # NoPath THEN sessions ELSE GeminiScanAnyProject(fs, order)

ScanLatest(fs, order, r) ==
    IF r.kind = "codex" THEN CodexScanLatest(fs, order)
    ELSE GeminiScanLatestSession(fs, order, r)

\* BaseLogReader.current_log_path, given what the scan returned
BaseCurrentLogPath(fs, r, latest) ==
    LET preferred ==
            IF latest = NoPath THEN r.preferred
            ELSE IF ~Exists(fs, r.preferred) THEN latest
            ELSE IF latest # r.preferred /\ fs[latest] > fs[r.preferred] THEN latest
            ELSE r.preferred
    IN [rd |-> [r EXCEPT !.preferred = preferred],
        ret |-> IF Exists(fs, preferred) THEN preferred ELSE latest]

\* GeminiLogReader._latest_session, given what the scan returned
GeminiLatestSession(fs, r, latest) ==
    IF latest # NoPath
    THEN IF ~Exists(fs, r.preferred) \/ latest # r.preferred
         THEN LET preferred_mtime == IF Exists(fs, r.preferred) THEN fs[r.preferred] ELSE 0
              IN IF fs[latest] > preferred_mtime
                 THEN [rd |-> [r EXCEPT !.preferred = latest,
                                        !.project_hash = ProjectOf(latest)],
                       ret |-> latest]
                 ELSE [rd |-> r, ret |-> r.preferred]
         ELSE [rd |-> r, ret |-> r.preferred]
    ELSE [rd |-> r, ret |-> IF Exists(fs, r.preferred) THEN r.preferred ELSE NoPath]

ResolveLogPath(fs, r, latest) ==
    IF r.kind = "codex" THEN BaseCurrentLogPath(fs, r, latest)
    ELSE GeminiLatestSession(fs, r, latest)

\* a provider creates or writes a file
Touch(path, mtime) ==
    /\ sys = "path"
    /\ fsys' = [fsys EXCEPT ![path] = mtime]
    /\ UNCHANGED <<sys, tick, nw, codexVars, geminiVars, dispatchVars, askVars,
                   bindVars, normVars, moreVars, listing, rd, pret, pg>>

\* a file is removed
Delete(path) ==
    /\ sys = "path"
    /\ fsys[path] > 0
    /\ fsys' = [fsys EXCEPT ![path] = 0]
    /\ UNCHANGED <<sys, tick, nw, codexVars, geminiVars, dispatchVars, askVars,
                   bindVars, normVars, moreVars, listing, rd, pret, pg>>

\* set_preferred_log(log_path): the Gemini reader takes existing files only,
\* and follows the file's project
SetPreferredLog(path) ==
    /\ sys = "path"
    /\ rd' = IF rd.kind = "codex" THEN [rd EXCEPT !.preferred = path]
             ELSE IF Exists(fsys, path)
                  THEN [rd EXCEPT !.preferred = path, !.project_hash = ProjectOf(path)]
                  ELSE rd
    /\ pg' = [pg EXCEPT !.reset = TRUE]
    /\ UNCHANGED <<sys, tick, nw, codexVars, geminiVars, dispatchVars, askVars,
                   bindVars, normVars, moreVars, fsys, listing, pret>>

\* current_log_path()
CurrentLogPath ==
    /\ sys = "path"
    /\ LET out == ResolveLogPath(fsys, rd, ScanLatest(fsys, listing, rd))
       IN /\ rd' = out.rd
          /\ pret' = [NoPathReturned EXCEPT !.called = TRUE, !.path = out.ret]
    /\ pg' = [pg EXCEPT !.reset = FALSE]
    /\ tick' = ~tick
    /\ UNCHANGED <<sys, nw, codexVars, geminiVars, dispatchVars, askVars, bindVars, normVars, moreVars, fsys, listing>>

\* GeminiLogReader.capture_state(): session = _latest_session(), then the
\* count and the last reply of that file
CaptureSession ==
    /\ sys = "path"
    /\ rd.kind = "gemini"
    /\ LET out == ResolveLogPath(fsys, rd, ScanLatest(fsys, listing, rd))
           exists == Exists(fsys, out.ret)
       IN /\ rd' = out.rd
          /\ pret' = [called |-> TRUE, path |-> out.ret,
                      msg_count |-> IF exists THEN Len(SessionMsgs) ELSE 0,
                      hash |-> IF exists THEN ExtractLastGemini(SessionMsgs) ELSE None,
                      reply |-> None]
    /\ pg' = [pg EXCEPT !.reset = FALSE]
    /\ tick' = ~tick
    /\ UNCHANGED <<sys, nw, codexVars, geminiVars, dispatchVars, askVars, bindVars, normVars, moreVars, fsys, listing>>

\* the rescan of _read_since resets no counter
KeepCounters(prev, reset) == prev

\* _read_since, "New session file, reset counters"
ResetCounters(prev, reset) ==
    IF reset THEN [prev EXCEPT !.msg_count = 0, !.hash = None] ELSE prev

\* one iteration of GeminiLogReader._read_since that reads the session file,
\* its locals being those of the state the last call returned: the rescan
\* when it is due, session = _latest_session(), and the scan of the
\* messages past prev_count
ReadSinceIter(rescan_due) ==
    /\ sys = "path"
    /\ rd.kind = "gemini"
    /\ LET latest == ScanLatest(fsys, listing, rd)
           switch == rescan_due /\ latest # NoPath /\ latest # rd.preferred
           rescanned == IF switch THEN [rd EXCEPT !.preferred = latest] ELSE rd
           prev == ResetCounters(pret, switch /\ latest # pret.path)
           out == ResolveLogPath(fsys, rescanned, ScanLatest(fsys, listing, rescanned))
           session == out.ret
           sc == ScanNew(SessionMsgs, prev.msg_count, prev.hash)
       IN /\ rd' = out.rd
          /\ pret' =
                IF ~Exists(fsys, session)
                THEN [called |-> TRUE, path |-> session, msg_count |-> prev.msg_count,
                      hash |-> prev.hash, reply |-> None]
                ELSE IF Len(SessionMsgs) > prev.msg_count /\ sc.contents # <<>>
                THEN [called |-> TRUE, path |-> session,
                      msg_count |-> Len(SessionMsgs), hash |-> sc.last_hash,
                      reply |-> Some(MergedContent(sc.contents))]
                ELSE [called |-> TRUE, path |-> session,
                      msg_count |-> Len(SessionMsgs),
                      hash |-> IF Len(SessionMsgs) > prev.msg_count THEN prev.hash
                               ELSE LastGeminiHash(SessionMsgs, prev.hash),
                      reply |-> None]
    /\ pg' = [pg EXCEPT !.reset = FALSE]
    /\ tick' = ~tick
    /\ UNCHANGED <<sys, nw, codexVars, geminiVars, dispatchVars, askVars, bindVars, normVars, moreVars, fsys, listing>>

NextPath ==
    \/ \E path \in Paths, mtime \in 1..MaxMtime : Touch(path, mtime)
    \/ \E path \in Paths : Delete(path)
    \/ \E path \in Paths : SetPreferredLog(path)
    \/ CurrentLogPath
    \/ CaptureSession
    \/ \E rescan_due \in BOOLEAN : ReadSinceIter(rescan_due)

\* what a resolution of the log path owes to the file chosen before it:
\* the chosen file while it exists and the scan finds no different file
\* with a strictly greater modification time; that file, made the preferred
\* one, when the scan finds one; the scanned candidate, made the preferred
\* one, when the chosen file is gone
Sticks(chosen) ==
    LET latest == ScanLatest(fsys, listing, rd)
        newer == /\ Exists(fsys, chosen)
                 /\ latest \notin {NoPath, chosen}
                 /\ fsys[latest] > fsys[chosen]
    IN /\ (Exists(fsys, chosen) /\ ~newer)
            => pret'.path = chosen /\ rd'.preferred = chosen
       /\ newer
            => pret'.path = latest /\ rd'.preferred = latest
       /\ (chosen # NoPath /\ ~Exists(fsys, chosen) /\ latest # NoPath)
            => pret'.path = latest /\ rd'.preferred = latest

\* C19: for both readers, once a preferred file is chosen, current_log_path
\* keeps returning it for as long as it exists, unless the scan finds a
\* different file with a strictly greater modification time, in which case
\* that file becomes the preferred one; if the preferred file no longer
\* exists the latest scanned candidate is returned and becomes preferred.
\* The chosen file is the one the resolution before returned, no
\* set_preferred_log call having come in between.
C19_PreferredLogIsSticky ==
    [][ ( /\ CurrentLogPath \/ \E rescan_due \in BOOLEAN : ReadSinceIter(rescan_due)
          /\ pret.called
          /\ pret.path # NoPath
          /\ ~pg.reset )
        => Sticks(pret.path) ]_vars

\* each call of current_log_path taken alone treats the preferred file it
\* finds at its entry in that way, in both readers
CurrentLogPathKeepsPreferred ==
    [][ CurrentLogPath => Sticks(rd.preferred) ]_vars

\* the only departure is the rescan of _read_since
StickyButForRescan ==
    [][ ( /\ CurrentLogPath \/ ReadSinceIter(FALSE)
          /\ pret.called
          /\ pret.path # NoPath
          /\ ~pg.reset )
        => Sticks(pret.path) ]_vars

\* C37: a Codex reader constructed with a session id filter resolves, in
\* capture_state and current_log_path, only log files that belong to that
\* session: a newer log file of another session under the same root never
\* becomes the target or the preferred log.
C37_FilterKeepsOtherSessionsOut ==
    [][ ( /\ sys = "path" /\ CurrentLogPath
          /\ rd.kind = "codex" /\ rd.session_id_filter # NoFilter )
        => /\ rd'.preferred # rd.preferred
                => SessionOf(rd'.preferred) = rd.session_id_filter
           /\ pret'.path \notin {NoPath, rd.preferred}
                => SessionOf(pret'.path) = rd.session_id_filter ]_vars

\* C25: when a new session file appears mid-wait, by whichever code path
\* the reader switches to it, the message count and last-reply hash are
\* reset for the new file, so that a complete assistant reply in the new
\* file is returned even when the new file holds no more messages than the
\* baseline count.
C25_NewSessionFileIsReadFromZero ==
    [][ ( /\ \E rescan_due \in BOOLEAN : ReadSinceIter(rescan_due)
          /\ pret.called /\ ~pg.reset
          /\ Exists(fsys, pret.path)
          /\ pret.msg_count = Len(SessionMsgs)
          /\ pret'.path # pret.path /\ Exists(fsys, pret'.path) )
        => pret'.reply.some ]_vars

\* when the rescan makes the switch, the reply of the new file is returned
RescanReadsNewSessionFromZero ==
    [][ ( /\ ReadSinceIter(TRUE)
          /\ pret.called /\ ~pg.reset
          /\ Exists(fsys, pret.path)
          /\ ScanLatest(fsys, listing, rd) \notin {NoPath, rd.preferred, pret.path}
          /\ Exists(fsys, pret'.path) )
        => pret'.reply.some ]_vars

(***************************************************************************)
(* Session binding file: _write_session_file and _remember_session         *)
(***************************************************************************)
\* bound: the processes that update the binding file of one project
NumWriters == 2

\* bound: the updates the processes make in all, one after each reply a
\* process binds
MaxUpdates == 3

Writers == 1..NumWriters

\* the content of a file: whose document it holds (0: the document the
\* file held at first) and whether all of it has reached the file
Content(data, full) == [data |-> data, full |-> full]

\* no file under that name
NoFile == 0

BindInit ==
    /\ bfiles = <<Content(0, TRUE)>>
    /\ bnames = [project_file |-> 1, tmp |-> NoFile]
    /\ bw = [w \in Writers |-> [pc |-> "idle", handle |-> NoFile]]
    /\ bseen = "nothing"

BindFrame ==
    UNCHANGED <<sys, tick, nw, codexVars, geminiVars, dispatchVars, askVars, pathVars,
                normVars, moreVars>>

\* _remember_session up to the write: json.load(project_file), and the
\* comparison of the recorded session path with the writer's own
LoadBinding(w) ==
    /\ sys = "bind"
    /\ bw[w].pc \in {"idle", "returned"}
    /\ nw < MaxUpdates
    /\ LET data == bfiles[bnames.project_file]
           updated == data.data # w
       IN bw' = [bw EXCEPT ![w].pc = IF data.full /\ updated THEN "loaded" ELSE "returned"]
    /\ nw' = nw + 1
    /\ UNCHANGED <<bfiles, bnames, bseen>>
    /\ UNCHANGED <<sys, tick, codexVars, geminiVars, dispatchVars, askVars, pathVars,
                   normVars, moreVars>>

\* tmp = path.with_suffix(".tmp"); tmp.open("w"): the name is the same for
\* every writer; opening creates the file, or empties the one that is there
OpenTmp(w) ==
    /\ sys = "bind"
    /\ bw[w].pc = "loaded"
    /\ IF bnames.tmp = NoFile
       THEN /\ bfiles' = Append(bfiles, Content(w, FALSE))
            /\ bnames' = [bnames EXCEPT !.tmp = Len(bfiles) + 1]
            /\ bw' = [bw EXCEPT ![w].pc = "opened", ![w].handle = Len(bfiles) + 1]
       ELSE /\ bfiles' = [bfiles EXCEPT ![bnames.tmp] = Content(w, FALSE)]
            /\ bw' = [bw EXCEPT ![w].pc = "opened", ![w].handle = bnames.tmp]
            /\ UNCHANGED bnames
    /\ UNCHANGED bseen
    /\ BindFrame

\* json.dump(data, f) and the end of the with block: the document reaches
\* the file the handle was opened on
DumpAndClose(w) ==
    /\ sys = "bind"
    /\ bw[w].pc = "opened"
    /\ bfiles' = [bfiles EXCEPT ![bw[w].handle] = Content(w, TRUE)]
    /\ bw' = [bw EXCEPT ![w].pc = "closed"]
    /\ UNCHANGED <<bnames, bseen>>
    /\ BindFrame

\* os.replace(tmp, path): raises when no file has the temporary name
Replace(w) ==
    /\ sys = "bind"
    /\ bw[w].pc = "closed"
    /\ IF bnames.tmp # NoFile
       THEN /\ bnames' = [project_file |-> bnames.tmp, tmp |-> NoFile]
            /\ bw' = [bw EXCEPT ![w].pc = "returned"]
       ELSE /\ bw' = [bw EXCEPT ![w].pc = "except"]
            /\ UNCHANGED bnames
    /\ UNCHANGED <<bfiles, bseen>>
    /\ BindFrame

\* the except clause: if tmp.exists(): tmp.unlink(missing_ok=True)
UnlinkTmp(w) ==
    /\ sys = "bind"
    /\ bw[w].pc = "except"
    /\ bnames' = [bnames EXCEPT !.tmp = NoFile]
    /\ bw' = [bw EXCEPT ![w].pc = "returned"]
    /\ UNCHANGED <<bfiles, bseen>>
    /\ BindFrame

\* a process reads the binding file
ReadBinding ==
    /\ sys = "bind"
    /\ bseen' = IF bfiles[bnames.project_file].full THEN "complete" ELSE "partial"
    /\ UNCHANGED <<bfiles, bnames, bw>>
    /\ BindFrame

NextBind ==
    \/ \E w \in Writers :
          LoadBinding(w) \/ OpenTmp(w) \/ DumpAndClose(w) \/ Replace(w) \/ UnlinkTmp(w)
    \/ ReadBinding

\* C20: when two or more processes or threads update the same
\* session-binding file concurrently, in any interleaving of their
\* write-to-temp-file and rename steps, a reader of the binding file never
\* observes partially written content.
C20_ReaderNeverSeesPartialBinding == (sys = "bind") => bseen # "partial"

(***************************************************************************)
(* path_utils.normalize_path_for_match                                     *)
(*                                                                         *)
(* A path is a sequence of characters.  "\\" is the backslash, "_" a       *)
(* blank.                                                                  *)
(***************************************************************************)
\* bound: the length of <rest>
MaxRest == 4

Letters == {"a", "A", "c", "C"}
LowerChar(ch) == IF ch = "A" THEN "a" ELSE IF ch = "C" THEN "c" ELSE ch

\* str.casefold() on these characters
CaseFold(s) == [i \in 1..Len(s) |-> LowerChar(s[i])]

\* s.replace("\\", "/")
ForwardSlashes(s) == [i \in 1..Len(s) |-> IF s[i] = "\\" THEN "/" ELSE s[i]]

StartsWith(s, prefix) == OccursAt(s, prefix, 1)

\* WIN_DRIVE_RE.match(s): ^[A-Za-z]:([/\\]|$)
WinDriveMatch(s) ==
    /\ Len(s) >= 2
    /\ s[1] \in Letters
    /\ s[2] = ":"
    /\ Len(s) = 2 \/ s[3] \in {"/", "\\"}

\* MNT_DRIVE_RE.match(s): ^/mnt/([A-Za-z])/(.*)$
MntDriveMatch(s) ==
    /\ Len(s) >= 7
    /\ SubSeq(s, 1, 5) = <<"/", "m", "n", "t", "/">>
    /\ s[6] \in Letters
    /\ s[7] = "/"

\* s.split("/")
RECURSIVE SplitSlash(_, _)
SplitSlash(s, comp) ==
    IF s = <<>> THEN <<comp>>
    ELSE IF Head(s) = "/" THEN <<comp>> \o SplitSlash(Tail(s), <<>>)
    ELSE SplitSlash(Tail(s), Append(comp, Head(s)))

DotDot == <<".", ".">>

\* the loop of posixpath.normpath over the components
RECURSIVE NormComps(_, _, _)
NormComps(comps, new_comps, initial_slashes) ==
    IF comps = <<>> THEN new_comps
    ELSE LET comp == Head(comps)
             rest == Tail(comps)
         IN IF comp \in {<<>>, <<".">>}
            THEN NormComps(rest, new_comps, initial_slashes)
            ELSE IF \/ comp # DotDot
                    \/ (initial_slashes = 0 /\ new_comps = <<>>)
                    \/ (new_comps # <<>> /\ new_comps[Len(new_comps)] = DotDot)
            THEN NormComps(rest, Append(new_comps, comp), initial_slashes)
            ELSE IF new_comps # <<>>
            THEN NormComps(rest, SubSeq(new_comps, 1, Len(new_comps) - 1),
                           initial_slashes)
            ELSE NormComps(rest, new_comps, initial_slashes)

\* posixpath.normpath(s)
NormPath(s) ==
    IF s = <<>> THEN <<".">>
    ELSE LET initial_slashes ==
                 IF ~StartsWith(s, <<"/">>) THEN 0
                 ELSE IF StartsWith(s, <<"/", "/">>) /\ ~StartsWith(s, <<"/", "/", "/">>)
                 THEN 2 ELSE 1
             joined == JoinWith(NormComps(SplitSlash(s, <<>>), <<>>, initial_slashes),
                                <<"/">>)
             path == [i \in 1..initial_slashes |-> "/"] \o joined
         IN IF path = <<>> THEN <<".">> ELSE path

RECURSIVE RStripSlash(_)
RStripSlash(s) ==
    IF s # <<>> /\ s[Len(s)] = "/" THEN RStripSlash(SubSeq(s, 1, Len(s) - 1)) ELSE s

RECURSIVE LStripSlash(_)
LStripSlash(s) == IF s # <<>> /\ Head(s) = "/" THEN LStripSlash(Tail(s)) ELSE s

\* looks_like_windows_path(value)
LooksLikeWindowsPath(value) ==
    LET s == Strip(value)
    IN /\ s # <<>>
       /\ \/ WinDriveMatch(s)
          \/ StartsWith(s, <<"\\", "\\">>)
          \/ StartsWith(s, <<"/", "/">>)

\* normalize_path_for_match(value) for an absolute path that does not start
\* with "~", outside MSYS and Windows hosts
NormalizePathForMatch(value) ==
    LET stripped == Strip(value)
        slashed == ForwardSlashes(stripped)
        mapped == IF MntDriveMatch(slashed)
                  THEN <<LowerChar(slashed[6]), ":", "/">>
                         \o SubSeq(slashed, 8, Len(slashed))
                  ELSE slashed
        collapsed == IF StartsWith(mapped, <<"/", "/">>)
                     THEN <<"/", "/">>
                            \o LStripSlash(NormPath(SubSeq(mapped, 3, Len(mapped))))
                     ELSE NormPath(mapped)
        lowered == IF WinDriveMatch(collapsed)
                   THEN <<LowerChar(collapsed[1])>> \o Tail(collapsed)
                   ELSE collapsed
        trimmed == IF Len(lowered) > 1 /\ lowered[Len(lowered)] = "/"
                   THEN LET t == RStripSlash(lowered)
                        IN IF WinDriveMatch(t) /\ Len(t) = 2 THEN t \o <<"/">> ELSE t
                   ELSE lowered
    IN IF stripped = <<>> THEN <<>>
       ELSE IF LooksLikeWindowsPath(trimmed) THEN CaseFold(trimmed)
       ELSE trimmed

\* the characters of <rest>
RestChars == {"a", "A", "/", "\\", ".", "_"}

Rests == UNION {[1..n -> RestChars] : n \in 0..MaxRest}

\* two spellings of one <rest>: the same characters up to letter case and
\* slash direction
SameRest(r1, r2) ==
    /\ Len(r1) = Len(r2)
    /\ \A i \in 1..Len(r1) :
          \/ LowerChar(r1[i]) = LowerChar(r2[i])
          \/ {r1[i], r2[i]} = {"/", "\\"}

\* /mnt/<d>/<rest>
WslPath(d, rest) == <<"/", "m", "n", "t", "/", d, "/">> \o rest

\* <D>:/<rest> with either slash after the drive
WinPath(d, sep, rest) == <<d, ":", sep>> \o rest

NotNormalized == [done |-> FALSE, s |-> <<>>]

NormInit ==
    /\ \E d1, d2 \in {"c", "C"}, sep \in {"/", "\\"}, r1, r2 \in Rests :
          /\ "\\" \notin {r1[i] : i \in DOMAIN r1}
          /\ SameRest(r1, r2)
          /\ npaths = [wsl |-> WslPath(d1, r1), win |-> WinPath(d2, sep, r2)]
    /\ nout = [wsl |-> NotNormalized, win |-> NotNormalized]

NormIdle ==
    /\ npaths = [wsl |-> <<>>, win |-> <<>>]
    /\ nout = [wsl |-> NotNormalized, win |-> NotNormalized]

\* a call normalize_path_for_match(path) on one of the two spellings
Normalize(form) ==
    /\ sys = "norm"
    /\ ~nout[form].done
    /\ nout' = [nout EXCEPT ![form] = [done |-> TRUE,
                                       s |-> NormalizePathForMatch(npaths[form])]]
    /\ UNCHANGED <<sys, tick, nw, codexVars, geminiVars, dispatchVars, askVars, pathVars,
                   bindVars, moreVars, npaths>>

NextNorm == \E form \in {"wsl", "win"} : Normalize(form)

HasParentSegment(s) ==
    LET comps == SplitSlash(ForwardSlashes(s), <<>>)
    IN \E i \in DOMAIN comps : comps[i] = DotDot

\* the two spellings match when <rest> has no ".." segment
SpellingsMatchWithoutParentSegment ==
    ( /\ sys = "norm" /\ nout.wsl.done /\ nout.win.done
      /\ ~HasParentSegment(SubSeq(npaths.win, 4, Len(npaths.win))) )
      => nout.wsl.s = nout.win.s

(***************************************************************************)
(* latest_conversations of both readers                                    *)
(*                                                                         *)
(* The record is a sequence of questions and assistant answers; a call     *)
(* scans the whole of it and returns the last n pairs.                     *)
(***************************************************************************)
MaxRecords == 4

ConvRecords ==
    [role : {"question"}, text : { <<"q">>, <<"r">>, <<"_">> }]
      \cup [role : {"answer"}, text : { <<"a", "[", "]">>, <<"b", "[", "]">>, <<"[", "]">> }]

RECURSIVE RecordsUpTo(_)
RecordsUpTo(len) ==
    IF len = 0 THEN { <<>> }
    ELSE LET shorter == RecordsUpTo(len - 1)
         IN  shorter \cup { Append(s, r) : s \in { t \in shorter : Len(t) = len - 1 },
                                           r \in ConvRecords }

\* the record as each provider writes it: Codex log lines of type "input"
\* and "response_item", Gemini messages of type "user" and "gemini"
AsEntry(reader, r) ==
    [type |-> IF reader = "codex"
              THEN (IF r.role = "question" THEN "input" ELSE "response_item")
              ELSE (IF r.role = "question" THEN "user" ELSE "gemini"),
     text |-> r.text]

AsEntries(reader, records) == [i \in DOMAIN records |-> AsEntry(reader, records[i])]

\* CodexLogReader.latest_conversations: the loop over the lines; question
\* is current_question
RECURSIVE CodexConversations(_, _)
CodexConversations(lines, question) ==
    IF lines = <<>> THEN <<>>
    ELSE LET entry == Head(lines)
             asked == IF entry.type = "input" /\ entry.text # <<>>
                      THEN Some(Strip(entry.text)) ELSE question
             message == ExtractMessageContent(entry)
             clean_message == Strip(Remove(message.text, MARKER))
         IN  IF Truthy(message) /\ Truthy(asked) /\ clean_message # <<>>
             THEN <<[question |-> asked.text, answer |-> clean_message]>>
                    \o CodexConversations(Tail(lines), None)
             ELSE CodexConversations(Tail(lines), asked)

\* conversations[-n:] for n > 0
LastN(conversations, n) ==
    IF Len(conversations) <= n THEN conversations
    ELSE SubSeq(conversations, Len(conversations) - n + 1, Len(conversations))

ConvInit ==
    cv \in [reader : {"codex", "gemini"}, records : RecordsUpTo(MaxRecords),
            n : {0}, out : { <<>> }]

ConvIdle == cv = [reader |-> "none", records |-> <<>>, n |-> 0, out |-> <<>>]

\* a call latest_conversations(n) with n > 0
LatestConversations(n) ==
    /\ sys = "conv"
    /\ cv.n # n
    /\ LET entries == AsEntries(cv.reader, cv.records)
           conversations == IF cv.reader = "codex"
                            THEN CodexConversations(entries, None)
                            ELSE Conversations(entries, None)
       IN  cv' = [cv EXCEPT !.n = n, !.out = LastN(conversations, n)]
    /\ UNCHANGED <<sys, tick, nw, codexVars, geminiVars, dispatchVars, askVars, pathVars,
                   bindVars, normVars, br, lk, ka>>

NextConv == \E n \in 1..MaxRecords : LatestConversations(n)

\* the text of a question, and of an answer as the reader cleans it
QuestionText(r) == Strip(r.text)
AnswerText(reader, r) ==
    IF reader = "codex" THEN Strip(Remove(Strip(r.text), MARKER))
    ELSE Strip(Remove(Remove(Strip(r.text), MARKER), LEGACY))

IsQuestion(r) == r.role = "question" /\ QuestionText(r) # <<>>
IsAnswer(reader, r) == r.role = "answer" /\ AnswerText(reader, r) # <<>>

\* the positions <<i, j>> of the pairs of one scan: j is the first non-empty
\* answer after question i, and i the most recent question before j
PairsOf(reader, records) ==
    { p \in (DOMAIN records) \X (DOMAIN records) :
        /\ p[1] < p[2]
        /\ IsQuestion(records[p[1]])
        /\ IsAnswer(reader, records[p[2]])
        /\ \A k \in (p[1] + 1)..(p[2] - 1) :
              ~IsQuestion(records[k]) /\ ~IsAnswer(reader, records[k]) }

\* the pairs in document order
RECURSIVE InOrder(_, _, _)
InOrder(reader, records, pairs) ==
    IF pairs = {} THEN <<>>
    ELSE LET p == CHOOSE x \in pairs : \A y \in pairs : x[2] <= y[2]
         IN  <<[question |-> QuestionText(records[p[1]]),
                answer |-> AnswerText(reader, records[p[2]])]>>
               \o InOrder(reader, records, pairs \ {p})

\* C34: for both readers and n > 0, latest_conversations(n) returns, in
\* document order, the last min(n, k) of the k pairs formed by one scan of
\* the whole record: each pair joins the most recent question not yet
\* answered with the first non-empty assistant answer after it; an answer
\* with no pending question forms no pair, and no question or answer occurs
\* in two pairs.
C34_LastPairsOfOneScan ==
    (sys = "conv" /\ cv.n > 0)
      => LET pairs == PairsOf(cv.reader, cv.records)
         IN  /\ \A p, q \in pairs : (p[1] = q[1] \/ p[2] = q[2]) => p = q
             /\ cv.out = LastN(InOrder(cv.reader, cv.records, pairs), cv.n)

\* the same for the mutable-document reader alone
GeminiLastPairsOfOneScan == cv.reader = "gemini" => C34_LastPairsOfOneScan

(***************************************************************************)
(* Codex bridge: the input FIFO (DualBridge.run, _read_request)            *)
(*                                                                         *)
(* A client writes one line per write: a JSON request or a line that is    *)
(* no JSON, then the newline.  The k-th request is the token ToString(k).  *)
(***************************************************************************)
MaxRequests == 3

NL == "NL"
NotJson == "x"

NoPayload == "none"

BridgeInit ==
    br = [fifo |-> <<>>, fifo_fd |-> FALSE, line_buffer |-> <<>>,
          written |-> 0, requests |-> 0, processed |-> <<>>, payload |-> NoPayload]

\* the position of the first newline of s (0: none)
FirstNewline(s) ==
    IF \E i \in DOMAIN s : s[i] = NL
    THEN CHOOSE i \in DOMAIN s : s[i] = NL /\ \A j \in 1..(i - 1) : s[j] # NL
    ELSE 0

\* a client writes a request and its newline to the FIFO in one write
BridgeWrite(json) ==
    /\ sys = "bridge"
    /\ br.written < MaxRequests
    /\ br' = [br EXCEPT
                !.fifo = @ \o <<IF json THEN ToString(br.requests + 1) ELSE NotJson, NL>>,
                !.written = @ + 1,
                !.requests = IF json THEN @ + 1 ELSE @]
    /\ UNCHANGED <<sys, tick, nw, codexVars, geminiVars, dispatchVars, askVars, pathVars,
                   bindVars, normVars, cv, lk, ka>>

\* _read_request: select on the descriptor, one os.read of what the FIFO
\* holds, and the first complete line of the buffer; the result is the
\* buffer and the payload returned (NoPayload for None)
ReadRequest(fifo, line_buffer) ==
    IF fifo = <<>>
    THEN \* select: not readable
         [line_buffer |-> line_buffer, payload |-> NoPayload]
    ELSE LET buffer == line_buffer \o fifo
             cut == FirstNewline(buffer)
             line == SubSeq(buffer, 1, cut - 1)
             rest == SubSeq(buffer, cut + 1, Len(buffer))
         IN  IF cut = 0
             THEN [line_buffer |-> buffer, payload |-> NoPayload]
             ELSE IF line = <<>> \/ line = <<NotJson>>
             THEN [line_buffer |-> rest, payload |-> NoPayload]
             ELSE [line_buffer |-> rest, payload |-> line[1]]

\* one iteration of the loop of DualBridge.run: _read_request, and
\* _process_request when it returned a payload
BridgeIteration ==
    /\ sys = "bridge"
    /\ LET r == ReadRequest(br.fifo, br.line_buffer)
       IN  br' = [br EXCEPT
                    !.fifo_fd = TRUE,
                    !.fifo = <<>>,
                    !.line_buffer = r.line_buffer,
                    !.payload = r.payload,
                    !.processed = IF r.payload = NoPayload THEN @
                                  ELSE Append(@, r.payload)]
    /\ tick' = ~tick
    /\ UNCHANGED <<sys, nw, codexVars, geminiVars, dispatchVars, askVars, pathVars,
                   bindVars, normVars, cv, lk, ka>>

NextBridge ==
    \/ \E json \in BOOLEAN : BridgeWrite(json)
    \/ BridgeIteration

\* the loop of DualBridge.run goes on while _running holds
BridgeFairness == WF_vars(BridgeIteration)

\* C38: every complete newline-terminated JSON request written to the input
\* FIFO is eventually returned by _read_request and processed exactly once,
\* in arrival order, also when several requests arrive in one read chunk
\* and nothing further is written afterwards.
C38_EveryRequestIsProcessed ==
    \A k \in 1..MaxRequests :
        (sys = "bridge" /\ br.requests >= k)
          ~> (\E i \in DOMAIN br.processed : br.processed[i] = ToString(k))

\* what is processed is processed once and in arrival order
ProcessedInArrivalOrder ==
    sys = "bridge"
      => /\ Len(br.processed) <= br.requests
         /\ \A i \in DOMAIN br.processed : br.processed[i] = ToString(i)

BridgeIdle == BridgeInit
(***************************************************************************)
(* Session lock (SessionHealth.acquire_lock, release_lock, cleanup_stale)  *)
(*                                                                         *)
(* The lock file is a name that points to a file (0: no file); each file   *)
(* has a content, the PID written to it (0: empty), and at most one        *)
(* process holds the flock on it.  A process that dies loses its flock.    *)
(***************************************************************************)
NumProcesses == 3
MaxLockFiles == 2

Processes == 1..NumProcesses
LockFiles == 1..MaxLockFiles

LockInit ==
    lk = [lock_file |-> 0,
          content |-> [f \in LockFiles |-> 0],
          flock |-> [f \in LockFiles |-> 0],
          created |-> 0,
          pc |-> [p \in Processes |-> "idle"],
          lock_fd |-> [p \in Processes |-> 0],
          acquired |-> [p \in Processes |-> "none"]]

LockIdle ==
    lk = [lock_file |-> 0, content |-> <<>>, flock |-> <<>>, created |-> 0,
          pc |-> <<>>, lock_fd |-> <<>>, acquired |-> <<>>]

LockFrame ==
    UNCHANGED <<sys, tick, nw, codexVars, geminiVars, dispatchVars, askVars, pathVars,
                bindVars, normVars, cv, br, ka>>

\* acquire_lock: open(self.lock_file, 'w') creates the file when there is
\* none and empties it when there is one
AcquireOpen(p) ==
    /\ sys = "lock"
    /\ lk.pc[p] = "idle"
    /\ lk.lock_file # 0 \/ lk.created < MaxLockFiles
    /\ LET f == IF lk.lock_file # 0 THEN lk.lock_file ELSE lk.created + 1
       IN  lk' = [lk EXCEPT !.lock_file = f,
                            !.created = IF lk.lock_file # 0 THEN @ ELSE @ + 1,
                            !.content[f] = 0,
                            !.lock_fd[p] = f,
                            !.pc[p] = "opened",
                            !.acquired[p] = "none"]
    /\ LockFrame

\* acquire_lock: fcntl.flock(fd, LOCK_EX | LOCK_NB); on failure the
\* descriptor is closed and the call returns False
AcquireFlock(p) ==
    /\ sys = "lock"
    /\ lk.pc[p] = "opened"
    /\ IF lk.flock[lk.lock_fd[p]] = 0
       THEN lk' = [lk EXCEPT !.flock[lk.lock_fd[p]] = p, !.pc[p] = "locked"]
       ELSE lk' = [lk EXCEPT !.lock_fd[p] = 0, !.pc[p] = "idle",
                             !.acquired[p] = "false"]
    /\ LockFrame

\* acquire_lock: the PID is written and flushed, the call returns True
AcquireWrite(p) ==
    /\ sys = "lock"
    /\ lk.pc[p] = "locked"
    /\ lk' = [lk EXCEPT !.content[lk.lock_fd[p]] = p, !.pc[p] = "holding",
                        !.acquired[p] = "true"]
    /\ LockFrame

\* release_lock by the process that acquired the lock: LOCK_UN and close
ReleaseUnlock(p) ==
    /\ sys = "lock"
    /\ lk.pc[p] = "holding"
    /\ lk' = [lk EXCEPT !.flock[lk.lock_fd[p]] = 0, !.lock_fd[p] = 0,
                        !.pc[p] = "unlinking"]
    /\ LockFrame

\* release_lock: self.lock_file.unlink() when the file exists
ReleaseUnlink(p) ==
    /\ sys = "lock"
    /\ lk.pc[p] = "unlinking"
    /\ lk' = [lk EXCEPT !.lock_file = 0, !.pc[p] = "idle"]
    /\ LockFrame

\* is_process_alive(pid)
IsProcessAlive(pid) == lk.pc[pid] # "dead"

\* is_locked: the flock attempt on the file fails, and the PID read from it
IsLocked ==
    IF lk.lock_file = 0 \/ lk.flock[lk.lock_file] = 0
    THEN [is_locked |-> FALSE, pid |-> 0]
    ELSE [is_locked |-> TRUE, pid |-> lk.content[lk.lock_file]]

\* cleanup_stale: the lock file is removed when it is locked and the PID
\* in it is that of a dead process
CleanupStale(p) ==
    /\ sys = "lock"
    /\ lk.pc[p] = "idle"
    /\ LET l == IsLocked
       IN  /\ l.is_locked /\ l.pid # 0 /\ ~IsProcessAlive(l.pid)
           /\ lk' = [lk EXCEPT !.lock_file = 0]
    /\ LockFrame

\* a process dies: the kernel closes its descriptor and drops its flock
ProcessDies(p) ==
    /\ sys = "lock"
    /\ lk.pc[p] # "dead"
    /\ lk' = [lk EXCEPT !.flock = [f \in LockFiles |-> IF @[f] = p THEN 0 ELSE @[f]],
                        !.lock_fd[p] = 0,
                        !.pc[p] = "dead"]
    /\ LockFrame

NextLock ==
    \E p \in Processes :
        \/ AcquireOpen(p)
        \/ AcquireFlock(p)
        \/ AcquireWrite(p)
        \/ ReleaseUnlock(p)
        \/ ReleaseUnlink(p)
        \/ CleanupStale(p)
        \/ ProcessDies(p)

\* the processes that hold the lock: acquire_lock returned True and they
\* have not released it
Holders == { p \in Processes : lk.pc[p] = "holding" }

\* C39: for processes that use acquire_lock, release_lock and cleanup_stale
\* on the same session file, in any interleaving, at most one process at a
\* time holds the lock, and a failed acquisition attempt leaves the holder's
\* PID in the lock file unchanged.
C39_OneHolderAndItsPidStays ==
    [][ sys = "lock"
        => /\ \A p, q \in { h \in Processes : lk'.pc[h] = "holding" } : p = q
           /\ \A p \in Processes, q \in Holders :
                 (AcquireFlock(p) /\ lk'.acquired[p] = "false"
                    /\ lk.lock_fd[p] = lk.lock_fd[q])
                   => lk.content[lk.lock_fd[q]] = q ]_vars

\* at most one process at a time holds the lock
OneHolder == sys = "lock" => \A p, q \in Holders : p = q

\* no process holds the flock of a file twice over
OneFlockPerFile ==
    sys = "lock"
      => \A p, q \in Processes :
            ( /\ lk.pc[p] \in {"locked", "holding"} /\ lk.pc[q] \in {"locked", "holding"}
              /\ lk.lock_fd[p] = lk.lock_fd[q] ) => p = q

(***************************************************************************)
(* Keepalive (Keepalive.on_message, tick, cancel, cancel_all)              *)
(*                                                                         *)
(* ka.pending is self.pending; ka.now is time.time().  The history fields  *)
(* are read by no operation: ka.fate[p] tells what became of the last      *)
(* "Next:" declaration of p, ka.sends[p] counts the reminders sent for it. *)
(***************************************************************************)
KeepaliveDelay == 60
MaxClock == 120

KeepaliveProviders == {"codex", "gemini"}

NextToken == "Next:"

KeepaliveMessages ==
    { <<"a">>,
      <<"a", "NL", NextToken, "_", "h">>,
      <<"a", NextToken, "h">>,
      <<NextToken, "_">> }

NoPending == [some |-> FALSE, due |-> 0, next_hint |-> <<>>]

\* the text from position i to the end of its line
RECURSIVE RestOfLine(_, _)
RestOfLine(s, i) ==
    IF i > Len(s) \/ s[i] = "NL" THEN <<>> ELSE <<s[i]>> \o RestOfLine(s, i + 1)

\* position i begins a line, leading whitespace aside
RECURSIVE AtLineStart(_, _)
AtLineStart(s, i) ==
    \/ i = 1
    \/ s[i - 1] = "NL"
    \/ IsWs(s[i - 1]) /\ AtLineStart(s, i - 1)

\* _extract_next: the first match of NEXT_RE, group 1 stripped ("" when
\* there is none)
ExtractNext(message) ==
    LET matches == { i \in DOMAIN message :
                       /\ message[i] = NextToken
                       /\ AtLineStart(message, i)
                       /\ RestOfLine(message, i + 1) # <<>> }
    IN  IF matches = {} THEN <<>>
        ELSE LET first == CHOOSE i \in matches : \A j \in matches : i <= j
             IN  Strip(RestOfLine(message, first + 1))

KeepaliveInit ==
    /\ ka \in [enabled : BOOLEAN,
               pending : {[p \in KeepaliveProviders |-> NoPending]},
               now : {0},
               sent_to : { {} },
               fate : {[p \in KeepaliveProviders |-> "none"]},
               sends : {[p \in KeepaliveProviders |-> 0]}]

KeepaliveIdle ==
    ka = [enabled |-> FALSE, pending |-> <<>>, now |-> 0, sent_to |-> {},
          fate |-> <<>>, sends |-> <<>>]

KeepaliveFrame ==
    UNCHANGED <<sys, tick, nw, codexVars, geminiVars, dispatchVars, askVars, pathVars,
                bindVars, normVars, cv, br, lk>>

\* time passes
ClockAdvances ==
    /\ sys = "keepalive"
    /\ ka.now < MaxClock
    /\ ka' = [ka EXCEPT !.now = @ + KeepaliveDelay \div 2]
    /\ KeepaliveFrame

\* on_message(provider, message), provider being "codex" or "gemini"
OnMessage(provider, message) ==
    /\ sys = "keepalive"
    /\ LET next_hint == ExtractNext(message)
       IN  IF ~ka.enabled THEN ka' = ka
           ELSE IF next_hint # <<>>
           THEN ka' = [ka EXCEPT
                         !.pending[provider] =
                             [some |-> TRUE, due |-> ka.now + KeepaliveDelay,
                              next_hint |-> next_hint],
                         !.fate[provider] = "pending",
                         !.sends[provider] = 0]
           ELSE ka' = [ka EXCEPT
                         !.pending[provider] = NoPending,
                         !.fate[provider] = IF @ = "pending" THEN "cleared" ELSE @]
    /\ KeepaliveFrame

\* tick keeps the entry after it sent the reminder
TickKeepsPending(pending, now, busy, send_ok) ==
    IF ~pending.some \/ now < pending.due
    THEN [pending |-> pending, sent |-> FALSE, cleared |-> FALSE]
    ELSE IF busy
    THEN [pending |-> NoPending, sent |-> FALSE, cleared |-> TRUE]
    ELSE [pending |-> pending, sent |-> send_ok, cleared |-> FALSE]

\* tick: the body of the loop for one provider; busy is is_busy_fn(provider),
\* send_ok whether send_fn returns (it raises otherwise)
TickProvider(pending, now, busy, send_ok) ==
    IF ~pending.some \/ now < pending.due
    THEN [pending |-> pending, sent |-> FALSE, cleared |-> FALSE]
    ELSE IF busy
    THEN [pending |-> NoPending, sent |-> FALSE, cleared |-> TRUE]
    ELSE [pending |-> NoPending, sent |-> send_ok, cleared |-> ~send_ok]

\* tick(send_fn, is_busy_fn): busy is the set of providers is_busy_fn holds of
Tick(busy, send_ok) ==
    /\ sys = "keepalive"
    /\ LET out == [p \in KeepaliveProviders |->
                      TickProvider(ka.pending[p], ka.now, p \in busy, send_ok)]
       IN  IF ~ka.enabled THEN ka' = [ka EXCEPT !.sent_to = {}]
           ELSE ka' = [ka EXCEPT
                         !.pending = [p \in KeepaliveProviders |-> out[p].pending],
                         !.sent_to = { p \in KeepaliveProviders : out[p].sent },
                         !.fate = [p \in KeepaliveProviders |->
                                      IF out[p].sent THEN "sent"
                                      ELSE IF out[p].cleared THEN "cleared"
                                      ELSE @[p]],
                         !.sends = [p \in KeepaliveProviders |->
                                      IF out[p].sent /\ @[p] < 2 THEN @[p] + 1 ELSE @[p]]]
    /\ KeepaliveFrame

\* cancel(provider)
Cancel(provider) ==
    /\ sys = "keepalive"
    /\ ka' = [ka EXCEPT !.pending[provider] = NoPending,
                        !.fate[provider] = IF @ = "pending" THEN "cleared" ELSE @]
    /\ KeepaliveFrame

\* cancel_all()
CancelAll ==
    /\ sys = "keepalive"
    /\ ka' = [ka EXCEPT !.pending = [p \in KeepaliveProviders |-> NoPending],
                        !.fate = [p \in KeepaliveProviders |->
                                     IF @[p] = "pending" THEN "cleared" ELSE @[p]]]
    /\ KeepaliveFrame

NextKeepalive ==
    \/ ClockAdvances
    \/ \E provider \in KeepaliveProviders, message \in KeepaliveMessages :
          OnMessage(provider, message)
    \/ \E busy \in SUBSET KeepaliveProviders, send_ok \in BOOLEAN : Tick(busy, send_ok)
    \/ \E provider \in KeepaliveProviders : Cancel(provider)
    \/ CancelAll

\* C40: for each provider, at most one reminder is sent per reply that
\* declares "Next:", and only at a tick at or after the due time when the
\* provider is not busy; a later reply from that provider without "Next:",
\* a cancel, or a busy provider at the due tick clears the pending reminder
\* so that it is never sent.
C40_OneReminderPerDeclaration ==
    [][ sys = "keepalive"
        => \A p \in KeepaliveProviders :
              /\ ka'.sends[p] <= 1
              /\ \A busy \in SUBSET KeepaliveProviders, send_ok \in BOOLEAN :
                    (Tick(busy, send_ok) /\ p \in ka'.sent_to)
                      => /\ ka.fate[p] = "pending"
                         /\ ka.pending[p].some /\ ka.now >= ka.pending[p].due
                         /\ p \notin busy
              /\ \A busy \in SUBSET KeepaliveProviders, send_ok \in BOOLEAN :
                    ( /\ Tick(busy, send_ok) /\ p \in busy
                      /\ ka.pending[p].some /\ ka.now >= ka.pending[p].due )
                      => ~ka'.pending[p].some
              /\ ( \/ Cancel(p) \/ CancelAll
                   \/ \E message \in KeepaliveMessages :
                         OnMessage(p, message) /\ ExtractNext(message) = <<>> /\ ka.enabled )
                   => ~ka'.pending[p].some
              /\ ka'.fate[p] # "pending" => ~ka'.pending[p].some ]_vars

\* a reminder was sent to one provider while the other's, due at the same
\* tick, was cleared because it was busy
C40_Witness ==
    /\ sys = "keepalive"
    /\ \E p, q \in KeepaliveProviders :
          /\ ka.fate[p] = "sent" /\ ka.sends[p] = 1 /\ p \in ka.sent_to
          /\ ka.fate[q] = "cleared" /\ ka.sends[q] = 0
          /\ ka.now >= KeepaliveDelay


(***************************************************************************)
(* Specifications                                                          *)
(***************************************************************************)
Init ==
    /\ sys \in {"codex", "gemini", "dispatch", "ask", "path", "bind", "norm",
               "gfile", "conv", "bridge", "lock",
               "keepalive"}
    /\ tick = FALSE
    /\ nw = 0
    /\ CodexInit
    /\ IF sys = "gemini" THEN GeminiInit
       ELSE IF sys = "gfile" THEN GfileInit ELSE GeminiIdle
    /\ IF sys = "dispatch" THEN DispatchInit ELSE DispatchIdle
    /\ IF sys = "ask" THEN AskInit ELSE AskIdle
    /\ IF sys = "path" THEN PathInit ELSE PathIdle
    /\ BindInit
    /\ IF sys = "norm" THEN NormInit ELSE NormIdle
    /\ IF sys = "conv" THEN ConvInit ELSE ConvIdle
    /\ IF sys = "bridge" THEN BridgeInit ELSE BridgeIdle
    /\ IF sys = "lock" THEN LockInit ELSE LockIdle
    /\ IF sys = "keepalive" THEN KeepaliveInit ELSE KeepaliveIdle

InitCodex == sys = "codex" /\ Init
InitGemini == sys = "gemini" /\ Init
InitDispatch == sys = "dispatch" /\ Init
InitAsk == sys = "ask" /\ Init
InitPath == sys = "path" /\ Init
InitBind == sys = "bind" /\ Init
InitNorm == sys = "norm" /\ Init
InitGfile == sys = "gfile" /\ Init
InitConv == sys = "conv" /\ Init
InitBridge == sys = "bridge" /\ Init
InitLock == sys = "lock" /\ Init
InitKeepalive == sys = "keepalive" /\ Init

SpecCodex == InitCodex /\ [][NextCodex]_vars
SpecGemini == InitGemini /\ [][NextGemini]_vars
SpecDispatch == InitDispatch /\ [][NextDispatch]_vars
SpecAsk == InitAsk /\ [][NextAsk]_vars
SpecPath == InitPath /\ [][NextPath]_vars
SpecBind == InitBind /\ [][NextBind]_vars
SpecNorm == InitNorm /\ [][NextNorm]_vars
SpecGfile == InitGfile /\ [][NextGfile]_vars
SpecConv == InitConv /\ [][NextConv]_vars
SpecBridge == InitBridge /\ [][NextBridge]_vars
SpecBridgeFair == SpecBridge /\ BridgeFairness
SpecLock == InitLock /\ [][NextLock]_vars
SpecKeepalive == InitKeepalive /\ [][NextKeepalive]_vars

\* the two readers
InitReaders == sys \in {"codex", "gemini"} /\ Init
NextReaders == NextCodex \/ NextGemini
SpecReaders == InitReaders /\ [][NextReaders]_vars

\* a running wait_for_message goes on: FileWatcher.wait_for_change sleeps
\* for at most the poll interval and returns, so the next iteration of the
\* loop (the reader step, which flips tick) is always taken
WaitLoopStep ==
    /\ cpc = "wait" \/ gpc # "idle"
    /\ tick' = ~tick

\* _read_since reads the file again once _force_read_interval has passed
\* since the last read, whatever its size and modification time: the step
\* of GeminiStat that goes on to the read
ForcedRead ==
    /\ gpc = "stat" /\ doc.cond # "missing"
    /\ gpc' = "read"

\* the producer finishes a write it has begun
WriteCompletes == ~Parses(doc) /\ doc' = [doc EXCEPT !.cut = 0, !.mtime_ns = @ + 1]

SpecReadersFair ==
    SpecReaders /\ WF_tick(WaitLoopStep) /\ WF_gpc(ForcedRead) /\ WF_doc(WriteCompletes)

\* a wait_for_message call is running and the file holds a complete
\* marker-terminated reply written after its checkpoint
CodexReplyPending ==
    /\ sys = "codex" /\ cpc = "wait" /\ ~cg.rot
    /\ \E i \in DOMAIN log :
          /\ Complete(log[i]) /\ IsMarkerRec(log[i].rec)
          /\ LineStart(log, i) >= cloc.offset

GeminiReplyPending ==
    /\ sys = "gemini" /\ gpc # "idle" /\ gloc.op = "wait"
    /\ gg.base >= 0 /\ gloc.prev_count >= gg.base
    /\ doc.cond = "ok" /\ Parses(doc)
    /\ Len(doc.msgs) > gloc.prev_count
    /\ EndsInMarker(doc.msgs[Len(doc.msgs)])

\* C35: for both readers, even if wait_for_change always returns False
\* (polling, never a change event), a complete marker-terminated reply
\* written to the target file after the baseline and before the deadline
\* is eventually returned by wait_for_message: a wait that runs while the
\* file holds such a reply returns a reply, unless its deadline passes or
\* the file is replaced.
C35_PollingReturnsTheReply ==
    /\ CodexReplyPending
          ~> \/ cpc = "idle" /\ cret.op = "wait"
             \/ cg.rot
    /\ GeminiReplyPending
          ~> \/ gpc = "idle" /\ gret.op = "wait"

\* the same for the append-only reader alone, and there the wait returns
\* the reply
CodexPollingReturnsTheReply ==
    CodexReplyPending
      ~> \/ cpc = "idle" /\ cret.op = "wait" /\ cret.reply.some
         \/ cg.rot

\* the callers of the health check: the communicator and the dispatcher
InitHealthCheckers == sys \in {"ask", "dispatch"} /\ Init
NextHealthCheckers == NextAsk \/ NextDispatch
SpecHealthCheckers == InitHealthCheckers /\ [][NextHealthCheckers]_vars

Next == NextCodex \/ NextGemini \/ NextDispatch \/ NextAsk \/ NextPath
          \/ NextBind \/ NextNorm \/ NextGfile \/ NextConv
          \/ NextBridge \/ NextLock \/ NextKeepalive
Spec == Init /\ [][Next]_vars
=============================================================================
